---- MODULE Spec2Model ----
(***************************************************************************)
(* Model of the wait4x waiter (package waiter): WaitContext, the retry     *)
(* loop that drives one checker under a deadline, WaitParallelContext,     *)
(* which runs one WaitContext per checker in its own goroutine, and        *)
(* exponentialBackoff.                                                     *)
(*                                                                         *)
(* Durations are values (the waitDuration of every backoff timer is        *)
(* recorded), but elapsed time is not measured: a Check call and the       *)
(* delay of a goroutine between two of its steps can take any amount of    *)
(* time, so a backoff timer and the deadline of a timeout context can      *)
(* each fire at any moment after they were started, in either order.  A    *)
(* Go select with several ready cases takes any one of them.               *)
(***************************************************************************)
EXTENDS Integers, Sequences, FiniteSets, TLC

\* ------------------------------------------------------------------ bounds
\* the largest number of Check calls of one WaitContext that is explored
MaxChecks == 3
\* the number of checkers handed to WaitParallel
MaxProbes == 2
\* the largest attempt count exponentialBackoff is called with directly
MaxAttempt == 64
\* the largest attempt count of the calls whose power coefficient^retries is
\* computed exactly
MaxPower == 5
\* the largest number of Check calls of one HTTP probe that is explored
MaxHTTPChecks == 2
\* the largest number of Check calls of one gRPC probe that is explored
MaxGRPCChecks == 3
\* the largest number of options handed to a constructor
MaxOptions == 3
\* the largest number of contexts a context is derived through
MaxContexts == 3

\* ------------------------------------------------------- program constants
maxRetries == 1000000
BackoffPolicyLinear == "linear"
BackoffPolicyExponential == "exponential"

\* A backoffCoefficient (float64) is held as a number of tenths: 15 is 1.5.
CoefDen == 10

\* ------------------------------------------------------------ input domains
Policies == {BackoffPolicyLinear, BackoffPolicyExponential, "invalid-policy"}
Timeouts == {-1, 0, 3}
Intervals == {-1, 0, 1, 2}
Coefficients == {10, 15, 20}
MaxIntervals == {1, 3}

\* options: the record that the Option functions fill in
Options ==
  [timeout: Timeouts, interval: Intervals, invertCheck: BOOLEAN,
   backoffPolicy: Policies, backoffExponentialMaxInterval: MaxIntervals,
   backoffCoefficient: Coefficients]

\* error values
Nil == "nil"
DeadlineExceeded == "context.DeadlineExceeded"
Canceled == "context.Canceled"
ExpectedError == "ExpectedError"
OrdinaryError == "error"
ErrIdentity == "invalid identity"
ErrPolicy == "invalid backoff policy"
ErrCoefficient == "backoff coefficient must be greater than 1.0"
ErrMaxInterval == "backoff exponential max interval must be greater than or equal to interval"
ErrInterval == "interval must be positive"

\* A checker as the waiter sees it: what Identity returns and how Check
\* behaves.  "alwaysNil", "alwaysError" and "errorThenNil" are the mocks of
\* the tests, which ignore the context; "any" is a probe that may return nil,
\* an expected error or another error, and the context's error once the
\* context is done.
ProbeKinds == {"alwaysNil", "alwaysError", "errorThenNil", "any"}
Checkers == [kind: ProbeKinds, identityErr: BOOLEAN]

VARIABLES
  opts,        \* the options every WaitContext call is given
  checkers,    \* the checkers, one per task
  parentErr,   \* Err() of the parent context
  pc,          \* pc[i]: where task i is in WaitContext / its goroutine
  ctx,         \* ctx[i]: the timeout context WaitContext derives, if any
  retries,     \* retries[i]: the attempt counter
  timer,       \* timer[i]: TRUE when the backoff timer has fired
  ret,         \* ret[i]: the value WaitContext returned
  identityCalls, \* identityCalls[i]: number of Identity() calls
  results,     \* results[i]: results of the Check calls, in order
  lateCall,    \* lateCall[i]: the last Check was called with ctx already done
  waits,       \* waits[i]: durations of the backoff timers started, in order
  logs,        \* logs[i]: the entries WaitContext wrote to its logger, in order
  wgErrors,    \* the buffered error channel
  wgDone,      \* TRUE once wgDone is closed
  wg,          \* the WaitGroup counter
  callerPc,    \* where the caller of WaitParallelContext is
  callerRet,   \* the value WaitParallelContext returned
  backoffArgs, \* the arguments of a direct call of exponentialBackoff
  backoffResult, \* the duration that call returned
  previousDuration, \* the duration the call before it returned
  h,           \* the HTTP probe: its expectations
  requestBody, \* h.requestBody: the reader handed to WithRequestBody
  requests,    \* the requests the server received, in order
  httpChecks,  \* the number of Check calls made on the HTTP probe
  lastCheck,   \* the response, validations and result of the last Check
  g,           \* the gRPC probe
  grpcChecks,  \* the number of Check calls made on the gRPC probe
  healthCall,  \* the last Check of the gRPC probe: what happened, its result
  supplied,    \* the options handed to a constructor, in order
  applied,     \* the number of them the constructor has applied
  built,       \* the object under construction
  config       \* the context carrying the configuration

taskVars ==
  <<pc, ctx, retries, timer, ret, identityCalls, results, lateCall, waits, logs>>
parVars == <<wgErrors, wgDone, wg, callerPc, callerRet>>
backoffVars == <<backoffArgs, backoffResult, previousDuration>>
httpVars == <<h, requestBody, requests, httpChecks, lastCheck>>
grpcVars == <<g, grpcChecks, healthCall>>
optionVars == <<supplied, applied, built>>
unitVars == <<backoffVars, httpVars, grpcVars, optionVars, config>>
vars ==
  <<opts, checkers, parentErr, taskVars, parVars, backoffVars, httpVars,
    grpcVars, optionVars, config>>

Tasks == DOMAIN checkers

\* ------------------------------------------------------------ pure helpers
RECURSIVE Pow(_, _)
Pow(b, n) == IF n = 0 THEN 1 ELSE b * Pow(b, n - 1)

\* exponentialBackoff with the product truncated instead of the multiplier
exponentialBackoff_TruncatesProduct(n, coef, initialInterval, maxInterval) ==
  LET num == Pow(coef, n)
      den == Pow(CoefDen, n)
      interval == (initialInterval * num) \div den
  IN  IF num * initialInterval > maxInterval * den THEN maxInterval
      ELSE IF interval <= 0 THEN 0
      ELSE IF interval > maxInterval THEN maxInterval
      ELSE interval

\* exponentialBackoff: multiplier = coefficient^retries is the rational
\* Pow(coef, retries) / Pow(CoefDen, retries).  time.Duration(multiplier)
\* truncates it; the error result of the Go function is the duration 0.
\* (math.IsInf(multiplier, 1) needs a power beyond the float64 range, which
\* the rational never is for the attempt counts explored.)
exponentialBackoff(n, coef, initialInterval, maxInterval) ==
  LET num == Pow(coef, n)
      den == Pow(CoefDen, n)
      interval == initialInterval * (num \div den)
  IN  IF num * initialInterval > maxInterval * den THEN maxInterval
      ELSE IF interval <= 0 THEN 0
      ELSE IF interval > maxInterval THEN maxInterval
      ELSE interval

\* ------------------------------------------- durations at the int64 limit
\* time.Duration is an int64 of nanoseconds.  Durations up to the limit of
\* int64 are written symbolically: 2^e (0 <= e <= 62), MaxInt64 = 2^63 - 1,
\* 0, and the negative values -2^e that a wrapped product can be.
DurationBits == 63
Pow2(e) == [kind |-> "2^e", e |-> e]
MaxInt64 == [kind |-> "2^e-1", e |-> DurationBits]
MinInt64 == [kind |-> "-2^e", e |-> DurationBits]
Zero64 == [kind |-> "0", e |-> 0]
NoDuration == [kind |-> "none", e |-> 0]

\* float64(d) of a positive duration, as the exponent of a power of two:
\* 2^e is exact; 2^63 - 1 needs 63 bits of mantissa, float64 has 53, and
\* the nearest float64 is 2^63
Float64Exp(d) == d.e

\* the exponent of the largest finite float64: math.Pow is +Inf beyond it
MaxFloat64Exp == 1023

\* time.Duration(f) of the float64 f = 2^x: exact up to 2^62; 2^63 and more
\* is not an int64, and the result of the conversion is then
\* implementation-dependent (amd64 gives MinInt64, arm64 gives MaxInt64)
DurationOfFloat(x) ==
  IF x < DurationBits THEN {Pow2(x)} ELSE {MinInt64, MaxInt64}

\* a * d in int64 (wrapping) for a = 2^b
Mul64(a, d) ==
  CASE d.kind = "2^e" ->
         IF a.e + d.e < DurationBits THEN Pow2(a.e + d.e)
         ELSE IF a.e + d.e = DurationBits THEN MinInt64
         ELSE Zero64
    [] d.kind = "2^e-1" ->
         IF a.e = 0 THEN d ELSE [kind |-> "-2^e", e |-> a.e]
    [] d.kind = "-2^e" ->
         IF a.e + d.e <= DurationBits THEN [kind |-> "-2^e", e |-> a.e + d.e]
         ELSE Zero64
    [] OTHER -> Zero64

\* d <= 0
NotPositive(d) == d.kind \in {"0", "-2^e"}

\* a > b for positive durations (MaxInt64 is the only one that is not a
\* power of two)
Greater64(a, b) == a.e > b.e

\* exponentialBackoff for a coefficient 2^c, an initial interval 2^b and a
\* max interval 2^e or MaxInt64: the set of durations the call can return
\* (the error result is the duration 0).  The multiplier is 2^(c * n).
exponentialBackoff64(n, c, initialInterval, maxInterval) ==
  LET multiplier == c * n
  IN  IF \/ multiplier > MaxFloat64Exp
         \/ multiplier > Float64Exp(maxInterval) - Float64Exp(initialInterval)
        THEN {maxInterval}
      ELSE {IF NotPositive(interval) THEN Zero64
            ELSE IF Greater64(interval, maxInterval) THEN maxInterval
            ELSE interval :
              interval \in {Mul64(initialInterval, d) :
                               d \in DurationOfFloat(multiplier)}}

\* the validation without the check of the interval
Validate_NoIntervalCheck(o) ==
  IF o.backoffPolicy # BackoffPolicyLinear /\ o.backoffPolicy # BackoffPolicyExponential
    THEN ErrPolicy
  ELSE IF o.backoffPolicy = BackoffPolicyExponential /\ o.backoffCoefficient <= CoefDen
    THEN ErrCoefficient
  ELSE IF o.backoffPolicy = BackoffPolicyExponential
          /\ o.backoffExponentialMaxInterval < o.interval
    THEN ErrMaxInterval
  ELSE Nil

\* the validation with the check of the interval ahead of the checks of the
\* exponential parameters
Validate_IntervalBeforeExponential(o) ==
  IF o.backoffPolicy # BackoffPolicyLinear /\ o.backoffPolicy # BackoffPolicyExponential
    THEN ErrPolicy
  ELSE IF o.interval <= 0 THEN ErrInterval
  ELSE IF o.backoffPolicy = BackoffPolicyExponential /\ o.backoffCoefficient <= CoefDen
    THEN ErrCoefficient
  ELSE IF o.backoffPolicy = BackoffPolicyExponential
          /\ o.backoffExponentialMaxInterval < o.interval
    THEN ErrMaxInterval
  ELSE Nil

\* The validation at the head of WaitContext: Nil, or the first error.
Validate(o) ==
  IF o.backoffPolicy # BackoffPolicyLinear /\ o.backoffPolicy # BackoffPolicyExponential
    THEN ErrPolicy
  ELSE IF o.backoffPolicy = BackoffPolicyExponential /\ o.backoffCoefficient <= CoefDen
    THEN ErrCoefficient
  ELSE IF o.backoffPolicy = BackoffPolicyExponential
          /\ o.backoffExponentialMaxInterval < o.interval
    THEN ErrMaxInterval
  ELSE IF o.interval <= 0 THEN ErrInterval
  ELSE Nil

\* context.WithTimeout(parent, timeout): cancelled at once when the parent
\* is done, expired at once when the deadline is not in the future.
WithTimeout(perr, timeout) ==
  [derived |-> TRUE,
   err |-> IF perr # Nil THEN perr
           ELSE IF timeout <= 0 THEN DeadlineExceeded ELSE Nil]

\* no context derived: the loop uses the parent
NoCtx == [derived |-> FALSE, err |-> Nil]

\* ctx.Err() of the context the loop of task i uses
CtxErr(i) == IF ctx[i].derived THEN ctx[i].err ELSE parentErr

\* shouldStop with a break on an error that is not an ExpectedError
ShouldStop_StopOnFatal(e, invertCheck) ==
  (e = Nil /\ ~invertCheck) \/ (e # Nil /\ invertCheck) \/ e = OrdinaryError

\* shouldStop without the branch of the normal (non-inverted) check
ShouldStop_OnlyInverted(e, invertCheck) ==
  e # Nil /\ invertCheck

\* shouldStop without the branch of the inverted check
ShouldStop_OnlyNormal(e, invertCheck) ==
  e = Nil /\ ~invertCheck

\* shouldStop that does not look at invertCheck
ShouldStop_IgnoreInvert(e, invertCheck) ==
  e = Nil

\* shouldStop of the loop
ShouldStop(e, invertCheck) ==
  (e = Nil /\ ~invertCheck) \/ (e # Nil /\ invertCheck)

\* waitDuration computed by exponentialBackoff under every policy
WaitDuration_AlwaysExponential(o, n) ==
  exponentialBackoff(n, o.backoffCoefficient, o.interval,
                     o.backoffExponentialMaxInterval)

\* waitDuration of the loop
WaitDuration(o, n) ==
  IF o.backoffPolicy = BackoffPolicyExponential
    THEN exponentialBackoff(n, o.backoffCoefficient, o.interval,
                            o.backoffExponentialMaxInterval)
    ELSE o.interval

\* the log entries: the info entry before a Check and the two error entries
LogChecking == "INFO Checking"
LogExpectationFailed == "ERROR Expectation failed"
LogErrorOccurred == "ERROR Error occurred"

\* what the loop logs for the result err of a Check
CheckLog(err) ==
  IF err = Nil THEN <<>>
  ELSE IF err = ExpectedError THEN <<LogExpectationFailed>>
  ELSE IF err # DeadlineExceeded THEN <<LogErrorOccurred>>
  ELSE <<>>

\* What chk.Check(ctx) can return
CheckResults(i) ==
  CASE checkers[i].kind = "alwaysNil" -> {Nil}
    [] checkers[i].kind = "alwaysError" -> {OrdinaryError}
    [] checkers[i].kind = "errorThenNil" ->
         IF Len(results[i]) < 1 THEN {OrdinaryError} ELSE {Nil}
    [] OTHER -> {Nil, ExpectedError, OrdinaryError}
                \cup (IF CtxErr(i) # Nil THEN {CtxErr(i)} ELSE {})

Finished(i) == pc[i] \in {"returned", "sent", "exited"}

\* the arguments of direct calls of exponentialBackoff: retries up to
\* MaxAttempt and at the cap of the attempt counter, backoffCoefficient c for
\* the coefficient 2^c, and durations from 1 ns up to the largest int64
BackoffArgs ==
  [retries: (0..MaxAttempt) \cup {maxRetries},
   backoffCoefficient: 1..3,
   initialInterval: {Pow2(b) : b \in 0..2},
   maxInterval: {Pow2(3), Pow2(40), Pow2(62), MaxInt64}]

\* no direct call of exponentialBackoff is made
NoCall ==
  [retries |-> 0, backoffCoefficient |-> 1,
   initialInterval |-> NoDuration, maxInterval |-> NoDuration]

\* the options WaitContext starts from
defaultOptions ==
  [timeout |-> 10, interval |-> 1, invertCheck |-> FALSE,
   backoffPolicy |-> BackoffPolicyLinear,
   backoffExponentialMaxInterval |-> 5, backoffCoefficient |-> 20]

\* ------------------------------------------------------------ HTTP checker
\* An io.Reader over data of which off bytes were read; isNil for the nil
\* reader of a probe without a request body; fails for a reader whose Read
\* returns an error.
Reader(data) == [isNil |-> FALSE, data |-> data, off |-> 0, fails |-> FALSE]
NilReader == [isNil |-> TRUE, data |-> <<>>, off |-> 0, fails |-> FALSE]

ReadError == "read error"
CloseError == "close error"

\* io.ReadAll: the bytes from the reader's position to its end, and the
\* reader left at its end
ReadAll(r) ==
  IF r.fails
    THEN [data |-> <<>>, err |-> ReadError, rest |-> r]
    ELSE [data |-> SubSeq(r.data, r.off + 1, Len(r.data)),
          err |-> Nil,
          rest |-> [r EXCEPT !.off = Len(r.data)]]

\* the body handed to WithRequestBody
RequestBodyData == <<"name", "score">>

\* the probes: a status code to expect or 0, a pattern per body validation
\* or "", and the expected header split at "=" (<<>> for "")
HTTPProbes ==
  [expectStatusCode: {0, 200},
   expectBodyRegex: {"", "r"},
   expectBodyJSON: {"", "j"},
   expectBodyXPath: {"", "x"},
   expectHeader: {<<>>, <<"K">>, <<"K", "v">>}]

\* a response body holds the parts a pattern can find in it
ResponseBodies ==
  {<<>>, <<"r">>, <<"j">>, <<"x">>, <<"r", "j">>, <<"r", "x">>, <<"j", "x">>,
   <<"r", "j", "x">>}

NoHeader == "absent"

\* the responses of the server: header is the value of the header K;
\* readErr and closeErr say whether reading and closing the body fail
Responses ==
  [status: {200, 503}, body: ResponseBodies, header: {NoHeader, "v", "w"},
   readErr: BOOLEAN, closeErr: BOOLEAN]

\* regexp.MatchString, gjson.Get(..).Exists and htmlquery.Query over the
\* text they are given
Matches(pattern, text) == \E k \in 1..Len(text) : text[k] = pattern

ErrStatusCode == "the status code doesn't expect"
ErrBody == "the body doesn't expect"
ErrJSON == "the JSON doesn't match"
ErrXPath == "the XPath doesn't match"
ErrHeaderValue == "the http header key and value doesn't expect"
ErrHeaderKey == "the http header key doesn't expect"
ErrTimeout == "timed out while making an http call"
ErrConnectionRefused == "failed to establish an http connection"

\* the errors httpClient.Do returns: the context of the request ended while
\* it was in flight (a *url.Error around ctx.Err()), the client's own
\* timeout elapsed, the connection was refused, anything else
URLDeadlineExceeded == "url.Error: context deadline exceeded"
URLCanceled == "url.Error: context canceled"
ClientTimeout == "url.Error: Client.Timeout exceeded"
ConnectionRefused == "connect: connection refused"
TransportError == "transport error"
\* a dial that ran into the timeout of the probe
DialTimeout == "dial tcp: i/o timeout"
DoErrors ==
  {URLDeadlineExceeded, URLCanceled, ClientTimeout, ConnectionRefused,
   TransportError}

\* os.IsTimeout: the error has a Timeout method that returns true, as the
\* *url.Error around context.DeadlineExceeded and the client's timeout have
IsTimeout(err) == err \in {URLDeadlineExceeded, ClientTimeout, DialTimeout}

IsConnectionRefused(err) == err = ConnectionRefused

\* what Check returns for an error of httpClient.Do
DoFailure(err) ==
  IF IsTimeout(err) THEN ErrTimeout
  ELSE IF IsConnectionRefused(err) THEN ErrConnectionRefused
  ELSE err

\* The state of one Check after the response arrived: the response, the
\* reader resp.Body, the validations evaluated so far and the error of the
\* last one.
Received(resp) ==
  [resp |-> resp,
   body |-> [Reader(resp.body) EXCEPT !.fails = resp.readErr],
   evaluated |-> <<>>,
   err |-> Nil]

checkingStatusCodeExpectation(p, st) ==
  [st EXCEPT !.evaluated = Append(@, "status"),
             !.err = IF p.expectStatusCode # st.resp.status
                       THEN ErrStatusCode ELSE Nil]

BodyExpectation(st, name, pattern, error) ==
  LET read == ReadAll(st.body)
  IN [st EXCEPT !.body = read.rest,
                !.evaluated = Append(@, name),
                !.err = IF read.err # Nil THEN read.err
                        ELSE IF ~Matches(pattern, read.data) THEN error
                        ELSE Nil]

checkingBodyExpectation(p, st) ==
  BodyExpectation(st, "regex", p.expectBodyRegex, ErrBody)

checkingJSONExpectation(p, st) ==
  BodyExpectation(st, "json", p.expectBodyJSON, ErrJSON)

checkingXPathExpectation(p, st) ==
  BodyExpectation(st, "xpath", p.expectBodyXPath, ErrXPath)

checkingHeaderExpectation(p, st) ==
  LET headerValue == IF st.resp.header = NoHeader THEN "" ELSE st.resp.header
  IN [st EXCEPT
        !.evaluated = Append(@, "header"),
        !.err = IF /\ Len(p.expectHeader) = 2
                     /\ ~Matches(p.expectHeader[2], <<headerValue>>)
                  THEN ErrHeaderValue
                ELSE IF st.resp.header = NoHeader THEN ErrHeaderKey
                ELSE Nil]

\* HTTP.Check from the response on: the validations in the order of the
\* code, each one only when it is configured and none before it returned an
\* error, then the deferred Close of the body
CheckResponse(p, resp) ==
  LET s0 == Received(resp)
      s1 == IF p.expectStatusCode # 0
              THEN checkingStatusCodeExpectation(p, s0) ELSE s0
      s2 == IF s1.err = Nil /\ p.expectBodyRegex # ""
              THEN checkingBodyExpectation(p, s1) ELSE s1
      s3 == IF s2.err = Nil /\ p.expectBodyJSON # ""
              THEN checkingJSONExpectation(p, s2) ELSE s2
      s4 == IF s3.err = Nil /\ p.expectBodyXPath # ""
              THEN checkingXPathExpectation(p, s3) ELSE s3
      s5 == IF s4.err = Nil /\ p.expectHeader # <<>>
              THEN checkingHeaderExpectation(p, s4) ELSE s4
  IN [resp |-> resp,
      cause |-> Nil,
      evaluated |-> s5.evaluated,
      err |-> IF resp.closeErr THEN CloseError ELSE s5.err]

\* the request the server receives: POST with what is left of the request
\* body when a body is configured, GET otherwise
Request(r) ==
  [method |-> IF r.isNil THEN "GET" ELSE "POST", body |-> ReadAll(r).data]

\* no response was received by the last Check
NoResponse ==
  [status |-> 0, body |-> <<>>, header |-> NoHeader,
   readErr |-> FALSE, closeErr |-> FALSE]

NoCheck ==
  [resp |-> NoResponse, cause |-> Nil, evaluated |-> <<>>, err |-> Nil]

NoProbe ==
  [expectStatusCode |-> 0, expectBodyRegex |-> "", expectBodyJSON |-> "",
   expectBodyXPath |-> "", expectHeader |-> <<>>]

\* no HTTP probe is checked
NoHTTP ==
  /\ h = NoProbe
  /\ requestBody = NilReader
  /\ requests = <<>>
  /\ httpChecks = 0
  /\ lastCheck = NoCheck

\* ------------------------------------------------------------ gRPC checker
\* the errors grpc.NewClient and healthClient.Check return
GRPCErrors == {DialTimeout, ConnectionRefused, TransportError}

ErrGRPCTimeout == "timed out while making a grpc call"
ErrGRPCConnection == "failed to establish a grpc connection"
ErrHealthTimeout == "timed out while performing health check"
ErrHealthCheckFailed == "health check failed"
ErrNotServing == "service is not serving"

\* the statuses of a health response
Serving == "SERVING"
HealthStatuses == {"UNKNOWN", Serving, "NOT_SERVING", "SERVICE_UNKNOWN"}

\* getGRPCConn: the error it returns for an error of grpc.NewClient
getGRPCConn(err) ==
  IF err = Nil THEN Nil
  ELSE IF IsTimeout(err) THEN ErrGRPCTimeout
  ELSE IF IsConnectionRefused(err) THEN ErrGRPCConnection
  ELSE err

\* checkHealth with every failure of the health call classified by the
\* error alone
checkHealth_ClassifiesFirst(ctxErr, err, status) ==
  IF err # Nil
    THEN IF IsTimeout(err) THEN ErrHealthTimeout
         ELSE IF IsConnectionRefused(err) THEN ErrGRPCConnection
         ELSE IF ctxErr # Nil THEN ctxErr
         ELSE ErrHealthCheckFailed
    ELSE IF status # Serving THEN ErrNotServing ELSE Nil

\* checkHealth: ctxErr is ctx.Err() when healthClient.Check returned, err
\* the error of that call and status the status of its response
checkHealth(ctxErr, err, status) ==
  IF err # Nil
    THEN IF ctxErr = Canceled THEN ctxErr
         ELSE IF ctxErr = DeadlineExceeded THEN ctxErr
         ELSE IF IsTimeout(err) THEN ErrHealthTimeout
         ELSE IF IsConnectionRefused(err) THEN ErrGRPCConnection
         ELSE ErrHealthCheckFailed
    ELSE IF status # Serving THEN ErrNotServing ELSE Nil

\* the gRPC probes
GRPCProbes == [serviceName: {"", "svc"}, insecureTransport: BOOLEAN]

\* no health call was made
NoHealthCall ==
  [connErr |-> Nil, ctxErr |-> Nil, err |-> Nil, status |-> "", ret |-> Nil]

\* no gRPC probe is checked
NoGRPC ==
  /\ g = [serviceName |-> "", insecureTransport |-> FALSE]
  /\ grpcChecks = 0
  /\ healthCall = NoHealthCall

\* ------------------------------------------------------ functional options
\* An option is the name of its constructor and the argument it was given.
\* Request headers are a set of <<key, value>> pairs, empty for the nil map.
HeaderKeys == {"Authorization", "Foo"}
HeaderValues == {"t1", "t2"}

HTTPOptions ==
  [name: {"http.WithTimeout"}, arg: {0, 5}]
    \cup [name: {"http.WithExpectStatusCode"}, arg: {0, 200}]
    \cup [name: {"http.WithRequestHeaders"},
          arg: {{}, {<<"Authorization", "t1">>}, {<<"Foo", "t1">>}}]
    \cup [name: {"http.WithRequestHeader"}, arg: HeaderKeys \X HeaderValues]

WaiterOptions ==
  [name: {"waiter.WithTimeout"}, arg: {0, 3}]
    \cup [name: {"waiter.WithInterval"}, arg: {0, 2}]
    \cup [name: {"waiter.WithInvertCheck"}, arg: BOOLEAN]

\* the fields New of the HTTP checker starts from (timeout in seconds)
HTTPDefaults ==
  [timeout |-> 3, expectStatusCode |-> 0, requestHeaders |-> {}]

\* WithRequestHeader replacing the headers by the one it is given
Apply_HeaderReplacesAll(o, b) ==
  CASE o.name = "http.WithTimeout" -> [b EXCEPT !.timeout = o.arg]
    [] o.name = "http.WithExpectStatusCode" ->
         [b EXCEPT !.expectStatusCode = o.arg]
    [] o.name = "http.WithRequestHeaders" -> [b EXCEPT !.requestHeaders = o.arg]
    [] o.name = "http.WithRequestHeader" -> [b EXCEPT !.requestHeaders = {o.arg}]
    [] o.name = "waiter.WithTimeout" -> [b EXCEPT !.timeout = o.arg]
    [] o.name = "waiter.WithInterval" -> [b EXCEPT !.interval = o.arg]
    [] o.name = "waiter.WithInvertCheck" -> [b EXCEPT !.invertCheck = o.arg]

\* what calling the option o does to the object b under construction
Apply(o, b) ==
  CASE o.name = "http.WithTimeout" -> [b EXCEPT !.timeout = o.arg]
    [] o.name = "http.WithExpectStatusCode" ->
         [b EXCEPT !.expectStatusCode = o.arg]
    [] o.name = "http.WithRequestHeaders" -> [b EXCEPT !.requestHeaders = o.arg]
    [] o.name = "http.WithRequestHeader" ->
         [b EXCEPT !.requestHeaders =
                     {p \in @ : p[1] # o.arg[1]} \cup {o.arg}]
    [] o.name = "waiter.WithTimeout" -> [b EXCEPT !.timeout = o.arg]
    [] o.name = "waiter.WithInterval" -> [b EXCEPT !.interval = o.arg]
    [] o.name = "waiter.WithInvertCheck" -> [b EXCEPT !.invertCheck = o.arg]

\* the loop `for _, opt := range opts { opt(h) }` over all of os
RECURSIVE ApplyAll(_, _)
ApplyAll(os, b) ==
  IF os = <<>> THEN b ELSE ApplyAll(Tail(os), Apply(Head(os), b))

\* no constructor is running
NoOptions ==
  /\ supplied = <<>>
  /\ applied = 0
  /\ built = HTTPDefaults

\* ------------------------------------------- context-scoped configuration
\* A context is the sequence of the contexts it was derived through, the
\* innermost last: a value context made by one of the With functions, or a
\* cancel / deadline context of the standard library.
ConfigValues ==
  [timeout |-> {0, 5}, interval |-> {0, 1}, invertCheck |-> BOOLEAN,
   backoffPolicy |-> {"", "exponential"}, backoffCoefficient |-> {0, 20},
   backoffExponentialMaxInterval |-> {0, 60}]

ConfigKeys == DOMAIN ConfigValues

\* the zero value of the type of each key
ZeroValue ==
  [timeout |-> 0, interval |-> 0, invertCheck |-> FALSE,
   backoffPolicy |-> "", backoffCoefficient |-> 0,
   backoffExponentialMaxInterval |-> 0]

\* WithTimeout, WithInterval, ...: context.WithValue(ctx, key, value)
With(c, key, value) == Append(c, [key |-> key, value |-> value])

\* context.WithCancel / WithDeadline / WithTimeout of the standard library
Derived(c, kind) == Append(c, [key |-> kind, value |-> 0])

\* a getter that reads only the innermost context
Get_InnermostContextOnly(c, key) ==
  IF c # <<>> /\ c[Len(c)].key = key THEN c[Len(c)].value ELSE ZeroValue[key]

\* GetTimeout, GetInterval, ...: ctx.Value(key) asserted to the type of the
\* key, the zero value when no context on the way out holds the key
RECURSIVE Get(_, _)
Get(c, key) ==
  IF c = <<>> THEN ZeroValue[key]
  ELSE IF c[Len(c)].key = key THEN c[Len(c)].value
  ELSE Get(SubSeq(c, 1, Len(c) - 1), key)

\* -------------------------------------------------------------------- Init
InitTasks(cs) ==
  /\ checkers = cs
  /\ parentErr = Nil
  /\ pc = [i \in DOMAIN cs |-> "start"]
  /\ ctx = [i \in DOMAIN cs |-> NoCtx]
  /\ retries = [i \in DOMAIN cs |-> 0]
  /\ timer = [i \in DOMAIN cs |-> FALSE]
  /\ ret = [i \in DOMAIN cs |-> Nil]
  /\ identityCalls = [i \in DOMAIN cs |-> 0]
  /\ results = [i \in DOMAIN cs |-> <<>>]
  /\ lateCall = [i \in DOMAIN cs |-> FALSE]
  /\ waits = [i \in DOMAIN cs |-> <<>>]
  /\ logs = [i \in DOMAIN cs |-> <<>>]

\* One WaitContext call (Wait / WaitContext)
Init ==
  /\ opts \in Options
  /\ \E c \in Checkers : InitTasks(<<c>>)
  /\ wgErrors = <<>>
  /\ wgDone = FALSE
  /\ wg = 0
  /\ callerPc = "none"
  /\ callerRet = Nil
  /\ backoffArgs = NoCall
  /\ backoffResult = NoDuration
  /\ previousDuration = NoDuration
  /\ NoHTTP
  /\ NoGRPC
  /\ NoOptions
  /\ config = <<>>

\* ---------------------------------------------------------- WaitContext
\* the deadline setup deriving a timeout context for every timeout
WaitContextStart_AlwaysDerives(i) ==
  /\ pc[i] = "start"
  /\ IF Validate(opts) # Nil
       THEN /\ pc' = [pc EXCEPT ![i] = "returned"]
            /\ ret' = [ret EXCEPT ![i] = Validate(opts)]
            /\ ctx' = ctx
       ELSE /\ pc' = [pc EXCEPT ![i] = "identity"]
            /\ ret' = ret
            /\ ctx' = [ctx EXCEPT ![i] = WithTimeout(parentErr, opts.timeout)]
  /\ UNCHANGED <<unitVars, logs, opts, checkers, parentErr, retries, timer, identityCalls,
                 results, lateCall, waits, parVars>>

\* the deadline setup deriving no timeout context at all
WaitContextStart_NeverDerives(i) ==
  /\ pc[i] = "start"
  /\ IF Validate(opts) # Nil
       THEN /\ pc' = [pc EXCEPT ![i] = "returned"]
            /\ ret' = [ret EXCEPT ![i] = Validate(opts)]
            /\ ctx' = ctx
       ELSE /\ pc' = [pc EXCEPT ![i] = "identity"]
            /\ ret' = ret
            /\ ctx' = [ctx EXCEPT ![i] = NoCtx]
  /\ UNCHANGED <<unitVars, logs, opts, checkers, parentErr, retries, timer, identityCalls,
                 results, lateCall, waits, parVars>>

\* options, validation and deadline setup
WaitContextStart(i) ==
  /\ pc[i] = "start"
  /\ IF Validate(opts) # Nil
       THEN /\ pc' = [pc EXCEPT ![i] = "returned"]
            /\ ret' = [ret EXCEPT ![i] = Validate(opts)]
            /\ ctx' = ctx
       ELSE /\ pc' = [pc EXCEPT ![i] = "identity"]
            /\ ret' = ret
            /\ ctx' = [ctx EXCEPT ![i] =
                 IF opts.timeout # 0 THEN WithTimeout(parentErr, opts.timeout)
                 ELSE NoCtx]
  /\ UNCHANGED <<unitVars, logs, opts, checkers, parentErr, retries, timer, identityCalls,
                 results, lateCall, waits, parVars>>

\* chk.Identity() with its error dropped
ResolveIdentity_IgnoreErr(i) ==
  /\ pc[i] = "identity"
  /\ identityCalls' = [identityCalls EXCEPT ![i] = @ + 1]
  /\ pc' = [pc EXCEPT ![i] = "attempt"]
  /\ UNCHANGED <<unitVars, logs, opts, checkers, parentErr, ctx, retries, timer, ret,
                 results, lateCall, waits, parVars>>

\* chk.Identity()
ResolveIdentity(i) ==
  /\ pc[i] = "identity"
  /\ identityCalls' = [identityCalls EXCEPT ![i] = @ + 1]
  /\ IF checkers[i].identityErr
       THEN /\ pc' = [pc EXCEPT ![i] = "returned"]
            /\ ret' = [ret EXCEPT ![i] = ErrIdentity]
       ELSE /\ pc' = [pc EXCEPT ![i] = "attempt"]
            /\ ret' = ret
  /\ UNCHANGED <<unitVars, logs, opts, checkers, parentErr, ctx, retries, timer,
                 results, lateCall, waits, parVars>>

\* top of the loop: chk.Check(ctx) is called
CheckStart(i) ==
  /\ pc[i] = "attempt"
  /\ pc' = [pc EXCEPT ![i] = "inflight"]
  /\ lateCall' = [lateCall EXCEPT ![i] = (CtxErr(i) # Nil)]
  /\ logs' = [logs EXCEPT ![i] = Append(@, LogChecking)]
  /\ UNCHANGED <<unitVars, opts, checkers, parentErr, ctx, retries, timer, ret,
                 identityCalls, results, waits, parVars>>

\* the loop body with the counter incremented without the bound
CheckReturn_NoCap(i) ==
  /\ pc[i] = "inflight"
  /\ \E e \in CheckResults(i) :
       /\ results' = [results EXCEPT ![i] = Append(@, e)]
       /\ logs' = [logs EXCEPT ![i] = @ \o CheckLog(e)]
       /\ IF ShouldStop(e, opts.invertCheck)
            THEN /\ pc' = [pc EXCEPT ![i] = "returned"]
                 /\ ret' = [ret EXCEPT ![i] = Nil]
                 /\ UNCHANGED <<retries, timer, waits>>
            ELSE LET n == retries[i] + 1
                     d == WaitDuration(opts, n)
                 IN  /\ retries' = [retries EXCEPT ![i] = n]
                     /\ timer' = [timer EXCEPT ![i] = FALSE]
                     /\ waits' = [waits EXCEPT ![i] = Append(@, d)]
                     /\ pc' = [pc EXCEPT ![i] = "waiting"]
                     /\ ret' = ret
  /\ UNCHANGED <<unitVars, opts, checkers, parentErr, ctx, identityCalls, lateCall,
                 parVars>>

\* chk.Check(ctx) returns e; the loop body runs up to the select
CheckReturn(i) ==
  /\ pc[i] = "inflight"
  /\ \E e \in CheckResults(i) :
       /\ results' = [results EXCEPT ![i] = Append(@, e)]
       /\ logs' = [logs EXCEPT ![i] = @ \o CheckLog(e)]
       /\ IF ShouldStop(e, opts.invertCheck)
            THEN /\ pc' = [pc EXCEPT ![i] = "returned"]
                 /\ ret' = [ret EXCEPT ![i] = Nil]
                 /\ UNCHANGED <<retries, timer, waits>>
            ELSE LET n == IF retries[i] < maxRetries THEN retries[i] + 1
                          ELSE retries[i]
                     d == WaitDuration(opts, n)
                 IN  /\ retries' = [retries EXCEPT ![i] = n]
                     /\ timer' = [timer EXCEPT ![i] = FALSE]
                     /\ waits' = [waits EXCEPT ![i] = Append(@, d)]
                     /\ pc' = [pc EXCEPT ![i] = "waiting"]
                     /\ ret' = ret
  /\ UNCHANGED <<unitVars, opts, checkers, parentErr, ctx, identityCalls, lateCall,
                 parVars>>

\* case <-ctx.Done() returning the error of the last Check
SelectCtxDone_ReturnsCheckErr(i) ==
  /\ pc[i] = "waiting"
  /\ CtxErr(i) # Nil
  /\ pc' = [pc EXCEPT ![i] = "returned"]
  /\ ret' = [ret EXCEPT ![i] = results[i][Len(results[i])]]
  /\ UNCHANGED <<unitVars, logs, opts, checkers, parentErr, ctx, retries, timer,
                 identityCalls, results, lateCall, waits, parVars>>

\* case <-ctx.Done() returning context.DeadlineExceeded whatever ctx.Err() is
SelectCtxDone_ReturnsDeadline(i) ==
  /\ pc[i] = "waiting"
  /\ CtxErr(i) # Nil
  /\ pc' = [pc EXCEPT ![i] = "returned"]
  /\ ret' = [ret EXCEPT ![i] = DeadlineExceeded]
  /\ UNCHANGED <<unitVars, logs, opts, checkers, parentErr, ctx, retries, timer,
                 identityCalls, results, lateCall, waits, parVars>>

\* select: case <-ctx.Done() returning the ExpectedError of the last attempt
\* when there is one
SelectCtxDone_ReturnsExpected(i) ==
  /\ pc[i] = "waiting"
  /\ CtxErr(i) # Nil
  /\ pc' = [pc EXCEPT ![i] = "returned"]
  /\ ret' = [ret EXCEPT ![i] = IF results[i][Len(results[i])] = ExpectedError
                                 THEN ExpectedError ELSE CtxErr(i)]
  /\ UNCHANGED <<unitVars, logs, opts, checkers, parentErr, ctx, retries, timer,
                 identityCalls, results, lateCall, waits, parVars>>

\* select: case <-ctx.Done()
SelectCtxDone(i) ==
  /\ pc[i] = "waiting"
  /\ CtxErr(i) # Nil
  /\ pc' = [pc EXCEPT ![i] = "returned"]
  /\ ret' = [ret EXCEPT ![i] = CtxErr(i)]
  /\ UNCHANGED <<unitVars, logs, opts, checkers, parentErr, ctx, retries, timer,
                 identityCalls, results, lateCall, waits, parVars>>

\* the loop going on to the next attempt without the timer having expired
SelectTimer_WithoutExpiry(i) ==
  /\ pc[i] = "waiting"
  /\ pc' = [pc EXCEPT ![i] = "attempt"]
  /\ UNCHANGED <<unitVars, logs, opts, checkers, parentErr, ctx, retries, timer, ret,
                 identityCalls, results, lateCall, waits, parVars>>

\* select: case <-timer.C
SelectTimer(i) ==
  /\ pc[i] = "waiting"
  /\ timer[i]
  /\ pc' = [pc EXCEPT ![i] = "attempt"]
  /\ UNCHANGED <<unitVars, logs, opts, checkers, parentErr, ctx, retries, timer, ret,
                 identityCalls, results, lateCall, waits, parVars>>

\* ---------------------------------------------------------- environment
\* the backoff timer of task i fires (explored while another Check fits
\* within MaxChecks)
TimerFire(i) ==
  /\ pc[i] = "waiting"
  /\ ~timer[i]
  /\ Len(results[i]) < MaxChecks
  /\ timer' = [timer EXCEPT ![i] = TRUE]
  /\ UNCHANGED <<unitVars, logs, opts, checkers, parentErr, pc, ctx, retries, ret,
                 identityCalls, results, lateCall, waits, parVars>>

\* the deadline of the timeout context of task i expires
DeadlineFire(i) ==
  /\ ~Finished(i)
  /\ ctx[i].derived
  /\ ctx[i].err = Nil
  /\ ctx' = [ctx EXCEPT ![i].err = DeadlineExceeded]
  /\ UNCHANGED <<unitVars, logs, opts, checkers, parentErr, pc, retries, timer, ret,
                 identityCalls, results, lateCall, waits, parVars>>

\* the owner of the parent context cancels it; the cancellation reaches
\* every context derived from it that is not done yet
ParentCancel ==
  /\ parentErr = Nil
  /\ \E i \in Tasks : ~Finished(i)
  /\ parentErr' = Canceled
  /\ ctx' = [i \in Tasks |->
               IF ctx[i].derived /\ ctx[i].err = Nil
                 THEN [ctx[i] EXCEPT !.err = Canceled] ELSE ctx[i]]
  /\ UNCHANGED <<unitVars, logs, opts, checkers, pc, retries, timer, ret,
                 identityCalls, results, lateCall, waits, parVars>>

\* ------------------------------------------------- WaitParallelContext
\* the probe goroutine with a blocking send on an unbuffered wgErrors: the
\* send of a non-nil error needs the caller standing in its select
TaskSend_Unbuffered(i) ==
  /\ callerPc # "none"
  /\ pc[i] = "returned"
  /\ ret[i] # Nil => (callerPc = "select" /\ wgErrors = <<>>)
  /\ pc' = [pc EXCEPT ![i] = "sent"]
  /\ wgErrors' = IF ret[i] # Nil THEN Append(wgErrors, ret[i]) ELSE wgErrors
  /\ UNCHANGED <<unitVars, logs, opts, checkers, parentErr, ctx, retries, timer, ret,
                 identityCalls, results, lateCall, waits, wgDone, wg,
                 callerPc, callerRet>>

\* the probe goroutine cancelling the shared context once its WaitContext
\* call returned
TaskSend_CancelsPeers(i) ==
  /\ callerPc # "none"
  /\ pc[i] = "returned"
  /\ pc' = [pc EXCEPT ![i] = "sent"]
  /\ wgErrors' = IF ret[i] # Nil /\ Len(wgErrors) < Len(checkers)
                   THEN Append(wgErrors, ret[i]) ELSE wgErrors
  /\ parentErr' = Canceled
  /\ ctx' = [j \in Tasks |->
               IF ctx[j].derived /\ ctx[j].err = Nil
                 THEN [ctx[j] EXCEPT !.err = Canceled] ELSE ctx[j]]
  /\ UNCHANGED <<unitVars, logs, opts, checkers, retries, timer, ret,
                 identityCalls, results, lateCall, waits, wgDone, wg,
                 callerPc, callerRet>>

\* the probe goroutine with a non-blocking send on a wgErrors of capacity
\* one
TaskSend_CapacityOne(i) ==
  /\ callerPc # "none"
  /\ pc[i] = "returned"
  /\ pc' = [pc EXCEPT ![i] = "sent"]
  /\ wgErrors' = IF ret[i] # Nil /\ Len(wgErrors) < 1
                   THEN Append(wgErrors, ret[i]) ELSE wgErrors
  /\ UNCHANGED <<unitVars, logs, opts, checkers, parentErr, ctx, retries, timer, ret,
                 identityCalls, results, lateCall, waits, wgDone, wg,
                 callerPc, callerRet>>

\* the probe goroutine after WaitContext returned: the non-blocking send of
\* a non-nil error on wgErrors (capacity len(checkers))
TaskSend(i) ==
  /\ callerPc # "none"
  /\ pc[i] = "returned"
  /\ pc' = [pc EXCEPT ![i] = "sent"]
  /\ wgErrors' = IF ret[i] # Nil /\ Len(wgErrors) < Len(checkers)
                   THEN Append(wgErrors, ret[i]) ELSE wgErrors
  /\ UNCHANGED <<unitVars, logs, opts, checkers, parentErr, ctx, retries, timer, ret,
                 identityCalls, results, lateCall, waits, wgDone, wg,
                 callerPc, callerRet>>

\* defer wg.Done()
TaskDone(i) ==
  /\ pc[i] = "sent"
  /\ pc' = [pc EXCEPT ![i] = "exited"]
  /\ wg' = wg - 1
  /\ UNCHANGED <<unitVars, logs, opts, checkers, parentErr, ctx, retries, timer, ret,
                 identityCalls, results, lateCall, waits, wgErrors, wgDone,
                 callerPc, callerRet>>

\* the barrier goroutine closing wgDone without wg.Wait()
BarrierClose_NoWait ==
  /\ callerPc # "none"
  /\ ~wgDone
  /\ wgDone' = TRUE
  /\ UNCHANGED <<unitVars, opts, checkers, parentErr, taskVars, wgErrors, wg,
                 callerPc, callerRet>>

\* the barrier goroutine: wg.Wait() returns, close(wgDone)
BarrierClose ==
  /\ callerPc # "none"
  /\ ~wgDone
  /\ wg = 0
  /\ wgDone' = TRUE
  /\ UNCHANGED <<unitVars, opts, checkers, parentErr, taskVars, wgErrors, wg,
                 callerPc, callerRet>>

\* the caller's select: case <-wgDone
CallerSelectDone ==
  /\ callerPc = "select"
  /\ wgDone
  /\ callerPc' = "returned"
  /\ callerRet' = Nil
  /\ UNCHANGED <<unitVars, opts, checkers, parentErr, taskVars, wgErrors, wgDone,
                 wg>>

\* case err := <-wgErrors taken only once every probe goroutine is done
CallerSelectErr_AfterAll ==
  /\ callerPc = "select"
  /\ Len(wgErrors) > 0
  /\ wgDone
  /\ callerPc' = "returned"
  /\ callerRet' = Head(wgErrors)
  /\ wgErrors' = Tail(wgErrors)
  /\ UNCHANGED <<unitVars, opts, checkers, parentErr, taskVars, wgDone, wg>>

\* the caller's select: case err := <-wgErrors
CallerSelectErr ==
  /\ callerPc = "select"
  /\ Len(wgErrors) > 0
  /\ callerPc' = "returned"
  /\ callerRet' = Head(wgErrors)
  /\ wgErrors' = Tail(wgErrors)
  /\ UNCHANGED <<unitVars, opts, checkers, parentErr, taskVars, wgDone, wg>>

\* ------------------------------------------------------- specifications
NextTasks ==
  \/ \E i \in Tasks : WaitContextStart(i)
  \/ \E i \in Tasks : ResolveIdentity(i)
  \/ \E i \in Tasks : CheckStart(i)
  \/ \E i \in Tasks : CheckReturn(i)
  \/ \E i \in Tasks : SelectCtxDone(i)
  \/ \E i \in Tasks : SelectTimer(i)
  \/ \E i \in Tasks : TimerFire(i)
  \/ \E i \in Tasks : DeadlineFire(i)

\* WaitContext(ctx, chk, opts...) with a parent context its owner may cancel
Next ==
  \/ NextTasks
  \/ ParentCancel

\* one call of Wait / WaitContext
Spec == Init /\ [][Next]_vars

\* one call of WaitParallel(checkers, opts...) over MaxProbes checkers, from
\* the moment the caller has made the channels, added every checker to the
\* WaitGroup, started the probe goroutines and the goroutine that waits on
\* the WaitGroup, and stands before its select.  The parent is
\* context.Background(), which is never cancelled.
ParOptions ==
  {o \in Options : /\ o.backoffExponentialMaxInterval = 3
                   /\ o.backoffCoefficient = 20
                   /\ o.backoffPolicy = BackoffPolicyLinear
                   /\ o.interval \in {0, 1}
                   /\ o.timeout \in {0, 3}}

ParCheckers ==
  {c \in Checkers : c.kind # "any" /\ (c.identityErr => c.kind = "alwaysNil")}

InitPar ==
  /\ opts \in ParOptions
  /\ \E cs \in [1..MaxProbes -> ParCheckers] : InitTasks(cs)
  /\ wgErrors = <<>>
  /\ wgDone = FALSE
  /\ wg = MaxProbes
  /\ callerPc = "select"
  /\ callerRet = Nil
  /\ backoffArgs = NoCall
  /\ backoffResult = NoDuration
  /\ previousDuration = NoDuration
  /\ NoHTTP
  /\ NoGRPC
  /\ NoOptions
  /\ config = <<>>

NextPar ==
  \/ NextTasks
  \/ \E i \in Tasks : TaskSend(i)
  \/ \E i \in Tasks : TaskDone(i)
  \/ BarrierClose
  \/ CallerSelectDone
  \/ CallerSelectErr

SpecPar == InitPar /\ [][NextPar]_vars

\* one call of Wait / WaitContext whose goroutine keeps running: the
\* scheduler lets it take its next step, a Check call returns, and a started
\* timer fires (while another Check fits within MaxChecks)
SpecLive == Init /\ [][Next]_vars /\ WF_vars(NextTasks)

\* WaitParallel over a pair of checkers, as TestWaitParallelSuccessful calls
\* it, at the point where InitPar stands
InitPair ==
  /\ opts \in ParOptions
  /\ \E cs \in [{1, 2} -> ParCheckers] : InitTasks(cs)
  /\ wgErrors = <<>>
  /\ wgDone = FALSE
  /\ wg = Len(checkers)
  /\ callerPc = "select"
  /\ callerRet = Nil
  /\ backoffArgs = NoCall
  /\ backoffResult = NoDuration
  /\ previousDuration = NoDuration
  /\ NoHTTP
  /\ NoGRPC
  /\ NoOptions
  /\ config = <<>>

\* one call of WaitContext, or of WaitParallel over a pair of checkers, with
\* a timeout above zero, every goroutine of which keeps running: a Check
\* call returns, the deadline of a timeout context arrives, a ready case of
\* a select is taken.  The owner of the parent context of WaitContext may
\* cancel it; the parent of WaitParallel is context.Background().
InitTimed == (Init \/ InitPair) /\ opts.timeout > 0

NextTimed ==
  \/ NextPar
  \/ (callerPc = "none" /\ ParentCancel)

SpecTimed == InitTimed /\ [][NextTimed]_vars /\ WF_vars(NextPar)

\* one call of WaitContext under the linear policy, watched either from its
\* start or from the top of its loop after maxRetries - 1 or more attempts
\* that did not end the wait (results and waits then hold the attempts made
\* since)
InitCounter ==
  \/ (Init /\ opts.backoffPolicy = BackoffPolicyLinear)
  \/ /\ opts \in {o \in Options : /\ o.backoffPolicy = BackoffPolicyLinear
                                   /\ o.interval > 0
                                   /\ o.timeout >= 0}
     /\ checkers \in {<<c>> : c \in {k \in Checkers : ~k.identityErr}}
     /\ parentErr = Nil
     /\ pc = <<"attempt">>
     /\ ctx = <<IF opts.timeout # 0 THEN WithTimeout(Nil, opts.timeout)
                ELSE NoCtx>>
     /\ retries \in {<<maxRetries - 1>>, <<maxRetries>>}
     /\ timer = <<FALSE>>
     /\ ret = <<Nil>>
     /\ identityCalls = <<1>>
     /\ results = <<<<>>>>
     /\ lateCall = <<FALSE>>
     /\ waits = <<<<>>>>
     /\ logs = <<<<>>>>
     /\ wgErrors = <<>>
     /\ wgDone = FALSE
     /\ wg = 0
     /\ callerPc = "none"
     /\ callerRet = Nil
     /\ backoffArgs = NoCall
     /\ backoffResult = NoDuration
     /\ previousDuration = NoDuration
     /\ NoHTTP
     /\ NoGRPC
     /\ NoOptions
     /\ config = <<>>

SpecCounter == InitCounter /\ [][Next]_vars

\* one direct call of exponentialBackoff(retries, backoffCoefficient,
\* initialInterval, maxInterval), as the unit tests of the function make it
InitBackoff ==
  /\ backoffArgs \in BackoffArgs
  /\ backoffResult = NoDuration
  /\ previousDuration = NoDuration
  /\ NoHTTP
  /\ NoGRPC
  /\ NoOptions
  /\ config = <<>>
  /\ opts = defaultOptions
  /\ InitTasks(<<>>)
  /\ wgErrors = <<>>
  /\ wgDone = FALSE
  /\ wg = 0
  /\ callerPc = "none"
  /\ callerRet = Nil

BackoffCall ==
  /\ backoffArgs # NoCall
  /\ backoffResult = NoDuration
  /\ backoffResult' \in exponentialBackoff64(backoffArgs.retries,
                                              backoffArgs.backoffCoefficient,
                                              backoffArgs.initialInterval,
                                              backoffArgs.maxInterval)
  /\ UNCHANGED <<backoffArgs, previousDuration, opts, checkers, parentErr,
                 taskVars, parVars, httpVars,
                 grpcVars, optionVars, config>>

\* the next call of a loop over retries, as TestExponentialBackoffConsistency
\* makes them: previousDuration = currentDuration, retries++, and the call
BackoffNextCall ==
  /\ backoffResult # NoDuration
  /\ backoffArgs.retries < MaxAttempt
  /\ previousDuration' = backoffResult
  /\ backoffArgs' = [backoffArgs EXCEPT !.retries = @ + 1]
  /\ backoffResult' \in exponentialBackoff64(backoffArgs.retries + 1,
                                              backoffArgs.backoffCoefficient,
                                              backoffArgs.initialInterval,
                                              backoffArgs.maxInterval)
  /\ UNCHANGED <<opts, checkers, parentErr, taskVars, parVars, httpVars,
                 grpcVars, optionVars, config>>

NextBackoff == BackoffCall \/ BackoffNextCall

SpecBackoff == InitBackoff /\ [][NextBackoff]_vars

\* one direct call of exponentialBackoff with a coefficient in tenths and
\* whole durations small enough for coefficient^retries to be computed
\* exactly, as the table of TestExponentialBackoff makes it
NotCalled == -1

ExactArgs ==
  {a \in [retries: 0..MaxPower,
          backoffCoefficient: {11, 15, 20, 25},
          initialInterval: 1..4,
          maxInterval: 1..6] : a.initialInterval <= a.maxInterval}

InitBackoffExact ==
  /\ backoffArgs \in ExactArgs
  /\ backoffResult = NotCalled
  /\ previousDuration = NotCalled
  /\ NoHTTP
  /\ NoGRPC
  /\ NoOptions
  /\ config = <<>>
  /\ opts = defaultOptions
  /\ InitTasks(<<>>)
  /\ wgErrors = <<>>
  /\ wgDone = FALSE
  /\ wg = 0
  /\ callerPc = "none"
  /\ callerRet = Nil

BackoffCallExact ==
  /\ backoffResult = NotCalled
  /\ backoffResult' = exponentialBackoff(backoffArgs.retries,
                                         backoffArgs.backoffCoefficient,
                                         backoffArgs.initialInterval,
                                         backoffArgs.maxInterval)
  /\ UNCHANGED <<backoffArgs, previousDuration, opts, checkers, parentErr,
                 taskVars, parVars, httpVars,
                 grpcVars, optionVars, config>>

NextBackoffExact == BackoffCallExact

SpecBackoffExact == InitBackoffExact /\ [][NextBackoffExact]_vars

\* ------------------------------------------------------- HTTP probe alone
\* one HTTP probe, with or without a request body, checked repeatedly as the
\* loop of WaitContext does
InitHTTP ==
  /\ h \in HTTPProbes
  /\ requestBody \in {NilReader, Reader(RequestBodyData)}
  /\ requests = <<>>
  /\ httpChecks = 0
  /\ lastCheck = NoCheck
  /\ NoGRPC
  /\ NoOptions
  /\ config = <<>>
  /\ opts = defaultOptions
  /\ InitTasks(<<>>)
  /\ wgErrors = <<>>
  /\ wgDone = FALSE
  /\ wg = 0
  /\ callerPc = "none"
  /\ callerRet = Nil
  /\ backoffArgs = NoCall
  /\ backoffResult = NoDuration
  /\ previousDuration = NoDuration

\* Check returns before a request is made: the TLS configuration or the
\* request cannot be built
HTTPCheckNoRequest ==
  /\ httpChecks < MaxHTTPChecks
  /\ \E e \in {"tls", "request"} : lastCheck' = [NoCheck EXCEPT !.err = e]
  /\ httpChecks' = httpChecks + 1
  /\ UNCHANGED <<config, optionVars, grpcVars, h, requestBody, requests,
                 backoffVars, opts, checkers,
                 parentErr, taskVars, parVars>>

\* httpClient.Do returns an error, kept in lastCheck.cause.  Only a call
\* that reached the server may have transmitted the request.
HTTPCheckFails ==
  /\ httpChecks < MaxHTTPChecks
  /\ \E e \in DoErrors :
       \E transmitted \in (IF IsConnectionRefused(e)
                             THEN {FALSE} ELSE BOOLEAN) :
         /\ lastCheck' = [NoCheck EXCEPT !.err = DoFailure(e), !.cause = e]
         /\ IF transmitted
              THEN /\ requests' = Append(requests, Request(requestBody))
                   /\ requestBody' = ReadAll(requestBody).rest
              ELSE UNCHANGED <<requests, requestBody>>
  /\ httpChecks' = httpChecks + 1
  /\ UNCHANGED <<config, optionVars, grpcVars, h, backoffVars, opts, checkers,
                 parentErr, taskVars, parVars>>

\* Check sends the request, receives a response and validates it
HTTPCheck ==
  /\ httpChecks < MaxHTTPChecks
  /\ requests' = Append(requests, Request(requestBody))
  /\ requestBody' = ReadAll(requestBody).rest
  /\ \E resp \in Responses : lastCheck' = CheckResponse(h, resp)
  /\ httpChecks' = httpChecks + 1
  /\ UNCHANGED <<config, optionVars, grpcVars, h, backoffVars, opts, checkers,
                 parentErr, taskVars, parVars>>

NextHTTP == HTTPCheckNoRequest \/ HTTPCheckFails \/ HTTPCheck

SpecHTTP == InitHTTP /\ [][NextHTTP]_vars

\* ------------------------------------------------------- gRPC probe alone
\* one gRPC probe checked repeatedly, as the loop of WaitContext does
InitGRPC ==
  /\ g \in GRPCProbes
  /\ grpcChecks = 0
  /\ healthCall = NoHealthCall
  /\ NoHTTP
  /\ NoOptions
  /\ config = <<>>
  /\ opts = defaultOptions
  /\ InitTasks(<<>>)
  /\ wgErrors = <<>>
  /\ wgDone = FALSE
  /\ wg = 0
  /\ callerPc = "none"
  /\ callerRet = Nil
  /\ backoffArgs = NoCall
  /\ backoffResult = NoDuration
  /\ previousDuration = NoDuration

\* Check returns the error of getGRPCConn
GRPCCheckNoConn ==
  /\ grpcChecks < MaxGRPCChecks
  /\ \E e \in GRPCErrors :
       healthCall' = [NoHealthCall EXCEPT !.connErr = e, !.ret = getGRPCConn(e)]
  /\ grpcChecks' = grpcChecks + 1
  /\ UNCHANGED <<g, config, optionVars, httpVars, backoffVars, opts, checkers, parentErr,
                 taskVars, parVars>>

\* Check makes the health call, which fails with an error or returns a
\* response, while the context is live, cancelled or past its deadline
GRPCCheck ==
  /\ grpcChecks < MaxGRPCChecks
  /\ \E ctxErr \in {Nil, Canceled, DeadlineExceeded} :
       \/ \E e \in GRPCErrors :
            healthCall' = [NoHealthCall EXCEPT
                             !.ctxErr = ctxErr, !.err = e,
                             !.ret = checkHealth(ctxErr, e, "")]
       \/ \E s \in HealthStatuses :
            healthCall' = [NoHealthCall EXCEPT
                             !.ctxErr = ctxErr, !.status = s,
                             !.ret = checkHealth(ctxErr, Nil, s)]
  /\ grpcChecks' = grpcChecks + 1
  /\ UNCHANGED <<g, config, optionVars, httpVars, backoffVars, opts, checkers, parentErr,
                 taskVars, parVars>>

NextGRPC == GRPCCheckNoConn \/ GRPCCheck

SpecGRPC == InitGRPC /\ [][NextGRPC]_vars

\* ------------------------------------------------------ constructor alone
\* New of the HTTP checker or WaitContext, given up to MaxOptions options,
\* standing before its loop over them
InitOptions ==
  /\ \E O \in {HTTPOptions, WaiterOptions} :
       /\ supplied \in UNION {[1..n -> O] : n \in 0..MaxOptions}
       /\ built = IF O = HTTPOptions THEN HTTPDefaults ELSE defaultOptions
  /\ applied = 0
  /\ config = <<>>
  /\ NoHTTP
  /\ NoGRPC
  /\ opts = defaultOptions
  /\ InitTasks(<<>>)
  /\ wgErrors = <<>>
  /\ wgDone = FALSE
  /\ wg = 0
  /\ callerPc = "none"
  /\ callerRet = Nil
  /\ backoffArgs = NoCall
  /\ backoffResult = NoDuration
  /\ previousDuration = NoDuration

\* one turn of the loop: the next option is called
ApplyOption ==
  /\ applied < Len(supplied)
  /\ built' = Apply(supplied[applied + 1], built)
  /\ applied' = applied + 1
  /\ UNCHANGED <<supplied, config, grpcVars, httpVars, backoffVars, opts, checkers,
                 parentErr, taskVars, parVars>>

NextOptions == ApplyOption

SpecOptions == InitOptions /\ [][NextOptions]_vars

\* ------------------------------------------------- configuration alone
\* a context built from context.Background() by the With functions and the
\* standard derivations, as the tests of the package do
InitConfig ==
  /\ config = <<>>
  /\ supplied = <<>>
  /\ applied = 0
  /\ built = HTTPDefaults
  /\ NoHTTP
  /\ NoGRPC
  /\ opts = defaultOptions
  /\ InitTasks(<<>>)
  /\ wgErrors = <<>>
  /\ wgDone = FALSE
  /\ wg = 0
  /\ callerPc = "none"
  /\ callerRet = Nil
  /\ backoffArgs = NoCall
  /\ backoffResult = NoDuration
  /\ previousDuration = NoDuration

ConfigWith ==
  /\ Len(config) < MaxContexts
  /\ \E key \in ConfigKeys : \E value \in ConfigValues[key] :
       config' = With(config, key, value)
  /\ UNCHANGED <<optionVars, grpcVars, httpVars, backoffVars, opts, checkers,
                 parentErr, taskVars, parVars>>

ConfigDerive ==
  /\ Len(config) < MaxContexts
  /\ \E kind \in {"cancelCtx", "timerCtx"} : config' = Derived(config, kind)
  /\ UNCHANGED <<optionVars, grpcVars, httpVars, backoffVars, opts, checkers,
                 parentErr, taskVars, parVars>>

NextConfig == ConfigWith \/ ConfigDerive

SpecConfig == InitConfig /\ [][NextConfig]_vars

\* ================================================================ claims
Last(q) == q[Len(q)]
Running(i) == pc[i] \in {"start", "identity", "attempt", "inflight", "waiting"}
CancellationErrors == {DeadlineExceeded, Canceled}

\* C1: WaitParallelContext never returns nil when the WaitContext of at
\* least one probe returned a non-nil error; the value it returns is then
\* the error of one of the probes.
C1_FirstFailureWins ==
  (callerPc = "returned" /\ \E i \in Tasks : Finished(i) /\ ret[i] # Nil)
    => /\ callerRet # Nil
       /\ \E i \in Tasks : Finished(i) /\ ret[i] = callerRet

\* C2: once a probe goroutine has put its error on the channel, the caller's
\* receive of it is enabled whether or not wgDone is closed and whatever the
\* other goroutines do; while a goroutine is still running, the caller's only
\* way to return is that receive, and a caller that has returned while a
\* goroutine was still running returned the error of a probe that failed.
C2_ReturnsFirstErrorWithoutWaiting ==
  /\ (callerPc = "select" /\ Len(wgErrors) > 0) => ENABLED CallerSelectErr
  /\ (callerPc = "select" /\ \E i \in Tasks : Running(i)) => ~ENABLED CallerSelectDone
  /\ (callerPc = "returned" /\ \E i \in Tasks : Running(i))
       => /\ callerRet # Nil
          /\ \E j \in Tasks : Finished(j) /\ ret[j] = callerRet

\* C2 witness: the caller has returned an error while another probe is still
\* attempting or waiting and wgDone is open
C2_Witness ==
  /\ callerPc = "returned"
  /\ callerRet # Nil
  /\ ~wgDone
  /\ \E i \in Tasks : pc[i] \in {"attempt", "inflight", "waiting"}

\* C3: no Check call starts once the context the loop uses (the timeout
\* context, or the parent when timeout is 0) is done.
C3_NoCheckOnceContextDone ==
  \A i \in Tasks : ~lateCall[i]

\* C4: in inverted mode WaitContext returns nil only after a Check that
\* returned an error other than a cancellation error.
C4_InvertedSuccessNeedsNonCancellation ==
  \A i \in Tasks :
    (opts.invertCheck /\ Finished(i) /\ ret[i] = Nil)
      => /\ Len(results[i]) > 0
         /\ Last(results[i]) \notin ({Nil} \cup CancellationErrors)

ViolatedRules(o) ==
  (IF o.backoffPolicy \notin {"linear", "exponential"} THEN {ErrPolicy} ELSE {})
  \cup (IF o.backoffPolicy = "exponential" /\ o.backoffCoefficient <= 10
          THEN {ErrCoefficient} ELSE {})
  \cup (IF o.backoffPolicy = "exponential"
           /\ o.backoffExponentialMaxInterval < o.interval
          THEN {ErrMaxInterval} ELSE {})
  \cup (IF o.interval <= 0 THEN {ErrInterval} ELSE {})

\* C6: with an invalid configuration WaitContext makes no Identity call and
\* no Check call, and returns the error of a rule the configuration violates.
C6_InvalidConfigurationNoProbeCalls ==
  \A i \in Tasks :
    ViolatedRules(opts) # {}
      => /\ identityCalls[i] = 0
         /\ results[i] = <<>>
         /\ pc[i] \in {"start", "returned", "sent", "exited"}
         /\ Finished(i) => ret[i] \in ViolatedRules(opts)

\* C6 witness: WaitContext has returned on an invalid configuration
C6_Witness ==
  \E i \in Tasks : ViolatedRules(opts) # {} /\ Finished(i)

\* C7: in non-inverted mode, when the first Check returns nil there is exactly
\* one Check call, no backoff timer is started and WaitContext returns nil.
C7_SingleAttemptOnSuccess ==
  \A i \in Tasks :
    (~opts.invertCheck /\ Len(results[i]) > 0 /\ results[i][1] = Nil)
      => /\ Len(results[i]) = 1
         /\ waits[i] = <<>>
         /\ retries[i] = 0
         /\ Finished(i)
         /\ ret[i] = Nil

\* C7 witness: the first Check returned nil in non-inverted mode
C7_Witness ==
  \E i \in Tasks :
    ~opts.invertCheck /\ Len(results[i]) = 1 /\ results[i][1] = Nil /\ Finished(i)

\* C8: when Identity returns an error, WaitContext returns that error and
\* Check is never called, in inverted and in non-inverted mode.
C8_IdentityFailureIsFatal ==
  \A i \in Tasks :
    (identityCalls[i] > 0 /\ checkers[i].identityErr)
      => /\ results[i] = <<>>
         /\ Finished(i)
         /\ ret[i] = ErrIdentity
         /\ identityCalls[i] = 1

\* C8 witness: Identity has failed in inverted mode
C8_Witness ==
  \E i \in Tasks :
    opts.invertCheck /\ identityCalls[i] > 0 /\ checkers[i].identityErr

\* C9: in non-inverted mode with timeout > 0 and a parent that is not
\* cancelled, when every Check returned an ordinary error WaitContext returns
\* context.DeadlineExceeded (never nil, never the error of the probe).
C9_AlwaysFailingEndsWithDeadlineExceeded ==
  \A i \in Tasks :
    (/\ ~opts.invertCheck
     /\ opts.timeout > 0
     /\ parentErr = Nil
     /\ Len(results[i]) > 0
     /\ \A k \in DOMAIN results[i] : results[i][k] = OrdinaryError
     /\ Finished(i))
      => ret[i] = DeadlineExceeded

\* C9 witness: WaitContext returned after two failed attempts
C9_Witness ==
  \E i \in Tasks :
    /\ ~opts.invertCheck
    /\ opts.timeout > 0
    /\ parentErr = Nil
    /\ Len(results[i]) >= 2
    /\ \A k \in DOMAIN results[i] : results[i][k] = OrdinaryError
    /\ Finished(i)

\* C10 as stated: once the parent is cancelled before the waiter's own
\* timeout elapsed, a waiter whose probe keeps failing starts no further
\* backoff wait and returns context.Canceled.  (Stated for the attempts that
\* were called before the cancellation: a Check called after it is the case
\* of C3.)
C10_NoBackoffWaitAfterCancel ==
  [][\A i \in Tasks :
       (/\ ~opts.invertCheck
        /\ CtxErr(i) = Canceled
        /\ pc[i] \in {"inflight", "waiting"}
        /\ ~lateCall[i])
         => /\ Len(waits'[i]) = Len(waits[i])
            /\ (pc[i] = "waiting" /\ pc'[i] = "returned") => ret'[i] = Canceled]_vars

\* C10 amended: when the parent is cancelled before the waiter's own timeout
\* elapsed and every Check fails, WaitContext returns context.Canceled, and
\* the select that takes ctx.Done() returns at once: it starts no timer and
\* no Check.  (A Check in flight at the cancellation, or one started by a
\* timer that fired as well, can still fail and start one more timer before
\* that select.)
C10_CancelReturnsCanceled ==
  /\ [](\A i \in Tasks :
          (/\ ~opts.invertCheck
           /\ CtxErr(i) = Canceled
           /\ Len(results[i]) > 0
           /\ \A k \in DOMAIN results[i] : results[i][k] # Nil
           /\ Finished(i))
            => ret[i] = Canceled)
  /\ [][\A i \in Tasks :
          (pc[i] = "waiting" /\ pc'[i] = "returned")
            => /\ waits'[i] = waits[i]
               /\ results'[i] = results[i]
               /\ ret'[i] = CtxErr(i)]_vars

\* C10 witness: WaitContext returned context.Canceled after a failed attempt
\* under a timeout that had not elapsed
C10_Witness ==
  \E i \in Tasks :
    /\ ~opts.invertCheck
    /\ opts.timeout > 0
    /\ Len(results[i]) > 0
    /\ \A k \in DOMAIN results[i] : results[i][k] # Nil
    /\ Finished(i)
    /\ ret[i] = Canceled

\* C11: in inverted mode a first Check that returns an error which is not
\* a cancellation error ends the wait at once: WaitContext has returned nil,
\* Check was invoked exactly once and no backoff wait was started.
C11_InvertedFirstErrorReturnsNil ==
  \A i \in Tasks :
    (opts.invertCheck /\ Len(results[i]) >= 1
       /\ results[i][1] \in {OrdinaryError, ExpectedError})
      => /\ Len(results[i]) = 1
         /\ waits[i] = <<>>
         /\ retries[i] = 0
         /\ pc[i] = "returned"
         /\ ret[i] = Nil

C11_Witness ==
  \E i \in Tasks :
    /\ opts.invertCheck
    /\ results[i] = <<OrdinaryError>>
    /\ pc[i] = "returned"
    /\ ret[i] = Nil

\* C12: in inverted mode an attempt whose Check returned nil never ends
\* the wait: it is followed by a backoff wait, and a call all of whose
\* attempts returned nil does not return nil; it returns the error of its
\* context, which is context.DeadlineExceeded unless the caller cancelled.
C12_InvertedNilIsRetried ==
  \A i \in Tasks :
    opts.invertCheck =>
      /\ \A k \in 1..Len(results[i]) :
           results[i][k] = Nil => Len(waits[i]) >= k
      /\ (Len(results[i]) >= 1 /\ Finished(i)
            /\ \A k \in 1..Len(results[i]) : results[i][k] = Nil)
           => /\ ret[i] \in CancellationErrors
              /\ parentErr = Nil => ret[i] = DeadlineExceeded

C12_Witness ==
  \E i \in Tasks :
    /\ opts.invertCheck /\ opts.timeout > 0 /\ parentErr = Nil
    /\ results[i] = <<Nil, Nil>>
    /\ Len(waits[i]) = 2
    /\ pc[i] = "returned"
    /\ ret[i] = DeadlineExceeded

\* C13: wgDone is closed only after the last probe task called Done, a nil
\* return of WaitParallelContext comes only after wgDone was closed (so
\* after all probe tasks have finished), and when no WaitContext call has
\* returned an error the value WaitParallelContext returns is nil.
C13_AllNilReturnsNilAfterAllDone ==
  /\ wgDone => (wg = 0 /\ \A i \in Tasks : pc[i] = "exited")
  /\ (callerPc = "returned" /\ callerRet = Nil) => wgDone
  /\ (callerPc = "returned" /\ \A i \in Tasks : ret[i] = Nil)
       => /\ callerRet = Nil
          /\ \A i \in Tasks : pc[i] = "exited"

C13_Witness ==
  /\ callerPc = "returned"
  /\ callerRet = Nil
  /\ \A i \in Tasks :
       pc[i] = "exited" /\ ret[i] = Nil /\ Len(results[i]) >= 1
  /\ \E i \in Tasks : Len(results[i]) = 2

\* C14: once one probe task of WaitParallelContext has ended with a non-nil
\* error, every other probe task stops at its next suspension point: a task
\* that stands in the select of its backoff wait does not leave it for a
\* new attempt (a new Check).
C14_SiblingsStopAfterFailure ==
  [][\A i \in Tasks :
       (\E j \in Tasks \ {i} : Finished(j) /\ ret[j] # Nil)
         => ~(pc[i] = "waiting" /\ pc'[i] = "attempt")]_vars

\* C15: a probe task of WaitParallelContext that has finished never cancels
\* the context of a peer: the context of a task ends only through its own
\* deadline, so without a timeout every WaitContext call that returns was
\* retried to success and returns nil, a probe that fails its first attempt
\* and then succeeds was checked twice, and the parallel waiter returns nil.
C15_NilFinishDoesNotCancelPeers ==
  /\ \A i \in Tasks :
       /\ CtxErr(i) \in {Nil, DeadlineExceeded}
       /\ CtxErr(i) = DeadlineExceeded => (ctx[i].derived /\ opts.timeout # 0)
       /\ ret[i] # Canceled
       /\ (Finished(i) /\ checkers[i].kind = "errorThenNil"
             /\ ~opts.invertCheck /\ ret[i] = Nil)
            => results[i] = <<OrdinaryError, Nil>>
  /\ (opts.timeout = 0 /\ Validate(opts) = Nil
        /\ \A j \in Tasks : ~checkers[j].identityErr)
       => /\ \A i \in Tasks : Finished(i) => ret[i] = Nil
          /\ callerPc = "returned" => callerRet = Nil

C15_Witness ==
  /\ opts.timeout = 0 /\ ~opts.invertCheck
  /\ callerPc = "returned"
  /\ callerRet = Nil
  /\ \E i, j \in Tasks :
       /\ checkers[j].kind = "alwaysNil"
       /\ pc[j] = "exited" /\ ret[j] = Nil
       /\ checkers[i].kind = "errorThenNil"
       /\ results[i] = <<OrdinaryError, Nil>>
       /\ pc[i] = "exited" /\ ret[i] = Nil

\* C16: for WaitParallelContext with timeout > 0 over probes that always
\* succeed and at least one that always returns an ordinary error, the Check
\* of each succeeding probe is invoked exactly once, the erroring probe is
\* retried until its deadline, and the error returned is
\* context.DeadlineExceeded.
C16_ParallelFailReturnsDeadlineExceeded ==
  (/\ opts.timeout > 0 /\ Validate(opts) = Nil /\ ~opts.invertCheck
   /\ \A i \in Tasks : /\ ~checkers[i].identityErr
                        /\ checkers[i].kind \in {"alwaysNil", "alwaysError"}
   /\ \E i \in Tasks : checkers[i].kind = "alwaysError")
    => /\ \A i \in Tasks :
            checkers[i].kind = "alwaysNil"
              => /\ Len(results[i]) <= 1
                 /\ Finished(i) => (Len(results[i]) = 1 /\ ret[i] = Nil)
       /\ \A i \in Tasks :
            (checkers[i].kind = "alwaysError" /\ Finished(i))
              => /\ ctx[i].err = DeadlineExceeded
                 /\ ret[i] = DeadlineExceeded
       /\ callerPc = "returned" => callerRet = DeadlineExceeded

\* C17: a probe task of WaitParallelContext whose WaitContext call has
\* returned is never blocked, whether or not the caller has returned: its
\* send on wgErrors can always be done (the channel never holds more than
\* len(checkers) errors), its wg.Done can always be done, the WaitGroup
\* counts the tasks that have not exited, and the barrier task can close
\* wgDone once every probe task has exited.
C17_ProbeTasksNeverBlock ==
  /\ \A i \in Tasks : pc[i] = "returned" => ENABLED TaskSend(i)
  /\ \A i \in Tasks : pc[i] = "sent" => ENABLED TaskDone(i)
  /\ Len(wgErrors) <= Len(checkers)
  /\ wg = Cardinality({i \in Tasks : pc[i] # "exited"})
  /\ ((\A i \in Tasks : pc[i] = "exited") /\ ~wgDone) => ENABLED BarrierClose

C17_Witness ==
  /\ callerPc = "returned"
  /\ wgDone
  /\ Len(wgErrors) >= 1
  /\ \A i \in Tasks : pc[i] = "exited" /\ ret[i] # Nil /\ Len(results[i]) >= 1

\* C18: under the exponential policy the wait that follows the k-th failed
\* attempt is min(interval x coefficient^(k-1), maxInterval), so the first
\* wait equals the base interval (the coefficient is in tenths: the
\* comparison is made on both sides multiplied by CoefDen^(k-1)).
C18_ExponentialWaitStartsAtBase ==
  \A i \in Tasks :
    opts.backoffPolicy = BackoffPolicyExponential =>
      \A k \in 1..Len(waits[i]) :
        LET num == opts.interval * Pow(opts.backoffCoefficient, k - 1)
            den == Pow(CoefDen, k - 1)
            cap == opts.backoffExponentialMaxInterval
        IN  waits[i][k] * den = (IF num <= cap * den THEN num ELSE cap * den)

\* C19: under the linear policy the coefficient and the max interval are
\* not validated (the only configuration error left is a non-positive
\* interval) and every backoff wait equals the configured interval, whatever
\* the attempt count, the coefficient and the max interval.
C19_LinearWaitIsInterval ==
  opts.backoffPolicy = BackoffPolicyLinear =>
    /\ Validate(opts) = (IF opts.interval <= 0 THEN ErrInterval ELSE Nil)
    /\ \A i \in Tasks :
         /\ ret[i] \notin {ErrPolicy, ErrCoefficient, ErrMaxInterval}
         /\ Len(waits[i]) = retries[i]
         /\ \A k \in 1..Len(waits[i]) : waits[i][k] = opts.interval

C19_Witness ==
  \E i \in Tasks :
    /\ opts.backoffPolicy = BackoffPolicyLinear
    /\ opts.backoffCoefficient <= CoefDen
    /\ opts.backoffExponentialMaxInterval < opts.interval
    /\ waits[i] = <<opts.interval, opts.interval, opts.interval>>

\* C20: for every attempt count up to the cap of the counter, every
\* coefficient > 1 and every 0 < base <= max, the duration exponentialBackoff
\* returns is positive and lies between base and max.
C20_BackoffWithinBounds ==
  backoffResult # NoDuration =>
    /\ ~NotPositive(backoffResult)
    /\ ~Greater64(backoffArgs.initialInterval, backoffResult)
    /\ ~Greater64(backoffResult, backoffArgs.maxInterval)

\* C21: for fixed coefficient, base and max, exponentialBackoff is
\* non-decreasing in the attempt count: the call with retries + 1 returns no
\* less than the call with retries did, and once max has been returned it
\* is returned again.
C21_BackoffNonDecreasing ==
  previousDuration # NoDuration =>
    /\ ~(NotPositive(backoffResult) /\ ~NotPositive(previousDuration))
    /\ (~NotPositive(backoffResult) /\ ~NotPositive(previousDuration))
         => ~Greater64(previousDuration, backoffResult)
    /\ previousDuration = backoffArgs.maxInterval
         => backoffResult = backoffArgs.maxInterval

\* C22 as stated: exponentialBackoff(n, c, base, max) equals
\* min(base x c^n, max), also for a fractional coefficient (both sides are
\* multiplied by CoefDen^n).
C22_BackoffIsMinOfExactProduct ==
  backoffResult # NotCalled =>
    LET num == backoffArgs.initialInterval
                 * Pow(backoffArgs.backoffCoefficient, backoffArgs.retries)
        den == Pow(CoefDen, backoffArgs.retries)
        cap == backoffArgs.maxInterval * den
    IN  backoffResult * den = (IF num <= cap THEN num ELSE cap)

\* C22 amended: exponentialBackoff(n, c, base, max) is max when
\* base x c^n > max, and otherwise base x k for the whole number k with
\* k <= c^n < k + 1: the power is truncated before the multiplication.
C22_BackoffTruncatesThePower ==
  backoffResult # NotCalled =>
    LET num == Pow(backoffArgs.backoffCoefficient, backoffArgs.retries)
        den == Pow(CoefDen, backoffArgs.retries)
        base == backoffArgs.initialInterval
        max == backoffArgs.maxInterval
    IN  IF base * num > max * den
          THEN backoffResult = max
          ELSE \E k \in 1..max :
                 /\ k * den <= num
                 /\ num < (k + 1) * den
                 /\ backoffResult = base * k

C22_Witness ==
  /\ backoffArgs.backoffCoefficient = 15
  /\ backoffArgs.retries = 2
  /\ backoffArgs.initialInterval = 2
  /\ backoffArgs.maxInterval = 6
  /\ backoffResult = 4

\* C23: the attempt counter of a WaitContext call is 0 until the loop is
\* entered, stays within 0..1,000,000, and changes only when a Check has
\* returned a result that does not end the wait (a failed check; in inverted
\* mode a nil result): it is then incremented by exactly 1, unless it is at
\* 1,000,000 already, where it stays.
C23_RetriesCounter ==
  /\ [](\A i \in Tasks :
          /\ retries[i] >= 0 /\ retries[i] <= maxRetries
          /\ pc[i] \in {"start", "identity"} => retries[i] = 0)
  /\ [][\A i \in Tasks :
          LET failed == /\ Len(results'[i]) = Len(results[i]) + 1
                        /\ (Last(results'[i]) = Nil) = opts.invertCheck
          IN  retries'[i] = IF failed /\ retries[i] < maxRetries
                              THEN retries[i] + 1 ELSE retries[i]]_vars

C23_Witness ==
  \E i \in Tasks :
    /\ ~opts.invertCheck
    /\ retries[i] = maxRetries
    /\ results[i] = <<OrdinaryError, OrdinaryError, OrdinaryError>>

\* C24: with timeout = 0 WaitContext derives no context of its own and
\* returns only nil, when the stop predicate held for the last Check, or the
\* error of the parent context once that is done; with a parent that is not
\* cancelled and a probe that always fails it has not returned; and a probe
\* that fails once and then succeeds leads to a return, with nil unless the
\* parent was cancelled.
C24_UnlimitedTimeout ==
  /\ [](\A i \in Tasks :
          (opts.timeout = 0 /\ Validate(opts) = Nil
             /\ ~checkers[i].identityErr)
            => /\ ~ctx[i].derived
               /\ Finished(i)
                    => \/ /\ ret[i] = Nil
                          /\ Len(results[i]) >= 1
                          /\ (Last(results[i]) = Nil) # opts.invertCheck
                       \/ /\ ret[i] = parentErr
                          /\ parentErr # Nil
               /\ (checkers[i].kind = "alwaysError" /\ ~opts.invertCheck
                     /\ parentErr = Nil)
                    => ~Finished(i))
  /\ (opts.timeout = 0 /\ Validate(opts) = Nil /\ ~opts.invertCheck
        /\ checkers = <<[kind |-> "errorThenNil", identityErr |-> FALSE]>>)
       ~> (pc[1] = "returned"
             /\ (ret[1] = Nil \/ (ret[1] = Canceled /\ parentErr = Canceled)))

C24_Witness ==
  \E i \in Tasks :
    /\ opts.timeout = 0 /\ ~opts.invertCheck /\ parentErr = Nil
    /\ checkers[i].kind = "errorThenNil"
    /\ results[i] = <<OrdinaryError, Nil>>
    /\ pc[i] = "returned"
    /\ ret[i] = Nil

\* C25: once validation and identity resolution have passed, a return of
\* WaitContext is nil or the error of the context the loop uses,
\* context.DeadlineExceeded or context.Canceled, and nothing else.
C25_ReturnsNilOrCancellationCause ==
  \A i \in Tasks :
    (Finished(i) /\ Validate(opts) = Nil /\ ~checkers[i].identityErr)
      => \/ ret[i] = Nil
         \/ /\ ret[i] \in CancellationErrors
            /\ ret[i] = CtxErr(i)

C25_Witness ==
  \E i \in Tasks :
    /\ pc[i] = "returned"
    /\ Len(results[i]) = 2
    /\ Last(results[i]) = ExpectedError
    /\ ret[i] = DeadlineExceeded

\* C26: when a Check returns a cancellation error (context.Canceled or
\* context.DeadlineExceeded), the waiter writes no log entry for that result.
C26_NoErrorLogForCancellation ==
  [][\A i \in Tasks :
       (/\ Len(results'[i]) = Len(results[i]) + 1
        /\ Last(results'[i]) \in CancellationErrors)
         => logs'[i] = logs[i]]_vars

\* the level of a log entry
LogLevel(entry) == IF entry = LogChecking THEN "INFO" ELSE "ERROR"

\* the levels of the log trace that the Check results rs call for: per
\* attempt one info entry, then one error entry when the result is an error
\* that is not a cancellation error
RECURSIVE LogGroups(_)
LogGroups(rs) ==
  IF rs = <<>> THEN <<>>
  ELSE LogGroups(SubSeq(rs, 1, Len(rs) - 1))
         \o <<"INFO">>
         \o (IF Last(rs) \in {Nil} \cup CancellationErrors
              THEN <<>> ELSE <<"ERROR">>)

\* C27: the log trace of a WaitContext call is one group per attempt: one
\* info entry written before the Check call, followed by one error entry if
\* and only if that Check returned an error that is not a cancellation
\* error; so there are as many info entries as Check invocations.
C27_LogTraceIsOneGroupPerAttempt ==
  \A i \in Tasks :
    [k \in 1..Len(logs[i]) |-> LogLevel(logs[i][k])]
      = LogGroups(results[i])
          \o (IF pc[i] = "inflight" THEN <<"INFO">> ELSE <<>>)

\* C28: every request an HTTP probe with a request body transmits is the one
\* its first Check transmitted: the method POST and the same whole body.
C28_EveryAttemptSendsTheSameRequest ==
  ~requestBody.isNil =>
    \A k \in 1..Len(requests) :
      /\ requests[k].method = "POST"
      /\ requests[k] = requests[1]

\* the validations a probe is configured with, in the order status code,
\* body regex, body JSON, body XPath, header
Configured(p) ==
  (IF p.expectStatusCode # 0 THEN <<"status">> ELSE <<>>)
    \o (IF p.expectBodyRegex # "" THEN <<"regex">> ELSE <<>>)
    \o (IF p.expectBodyJSON # "" THEN <<"json">> ELSE <<>>)
    \o (IF p.expectBodyXPath # "" THEN <<"xpath">> ELSE <<>>)
    \o (IF p.expectHeader # <<>> THEN <<"header">> ELSE <<>>)

\* the error a configured validation has for a response, Nil when the
\* response meets the expectation
ExpectationError(v, p, resp) ==
  CASE v = "status" ->
         IF resp.status = p.expectStatusCode THEN Nil ELSE ErrStatusCode
    [] v = "regex" ->
         IF Matches(p.expectBodyRegex, resp.body) THEN Nil ELSE ErrBody
    [] v = "json" ->
         IF Matches(p.expectBodyJSON, resp.body) THEN Nil ELSE ErrJSON
    [] v = "xpath" ->
         IF Matches(p.expectBodyXPath, resp.body) THEN Nil ELSE ErrXPath
    [] v = "header" ->
         IF Len(p.expectHeader) = 2 /\ resp.header # p.expectHeader[2]
           THEN ErrHeaderValue
         ELSE IF resp.header = NoHeader THEN ErrHeaderKey
         ELSE Nil

\* the last Check received a response whose body was read and closed
\* without an error
Validated ==
  /\ lastCheck.resp # NoResponse
  /\ ~lastCheck.resp.readErr
  /\ ~lastCheck.resp.closeErr

\* C29: Check evaluates the configured validations in the order status code,
\* body regex, body JSON, body XPath, header, and no others; when the
\* response fails one of them, Check returns the error of the first one it
\* fails and evaluates none after it.
C29_FirstFailingValidationDecides ==
  Validated =>
    LET c == Configured(h)
        failing == {k \in 1..Len(c) :
                      ExpectationError(c[k], h, lastCheck.resp) # Nil}
    IN /\ \E n \in 0..Len(c) : lastCheck.evaluated = SubSeq(c, 1, n)
       /\ failing # {} =>
            LET first == CHOOSE k \in failing : \A l \in failing : k <= l
            IN /\ lastCheck.err = ExpectationError(c[first], h, lastCheck.resp)
               /\ lastCheck.evaluated = SubSeq(c, 1, first)

BodyValidations == {"regex", "json", "xpath"}

\* C30: a probe with more than one body validation returns nil for a
\* response whose status, body and headers meet every configured
\* expectation.
C30_SatisfyingResponseReturnsNil ==
  LET c == Configured(h)
  IN (/\ Validated
      /\ Cardinality({k \in 1..Len(c) : c[k] \in BodyValidations}) > 1
      /\ \A k \in 1..Len(c) : ExpectationError(c[k], h, lastCheck.resp) = Nil)
       => lastCheck.err = Nil

\* the errors of the HTTP probe that are expected errors
HTTPExpectedErrors ==
  {ErrTimeout, ErrConnectionRefused, ErrStatusCode, ErrBody, ErrJSON,
   ErrXPath, ErrHeaderValue, ErrHeaderKey}

\* the request of the last Check ended because its context was done
ContextEnded == lastCheck.cause \in {URLDeadlineExceeded, URLCanceled}

\* C31: when the context of an HTTP Check is cancelled or its deadline
\* elapses while the request is in flight, Check returns the cancellation
\* reason and not an expected error.
C31_HTTPCheckReturnsCancellationReason ==
  ContextEnded =>
    /\ lastCheck.err \notin HTTPExpectedErrors
    /\ lastCheck.err = lastCheck.cause

\* the errors of the gRPC probe that are expected errors
GRPCExpectedErrors ==
  {ErrGRPCTimeout, ErrGRPCConnection, ErrHealthTimeout, ErrHealthCheckFailed,
   ErrNotServing}

\* C32: a failure of the health call that is neither a cancellation of the
\* context, nor a timeout, nor a refused connection makes Check return a
\* fatal error, not an expected error.
C32_OtherHealthFailureIsFatal ==
  (/\ healthCall.err # Nil
   /\ healthCall.ctxErr = Nil
   /\ ~IsTimeout(healthCall.err)
   /\ ~IsConnectionRefused(healthCall.err))
    => healthCall.ret \notin GRPCExpectedErrors \cup {Nil}

\* C33: when the health call fails and the context of Check is cancelled or
\* past its deadline, Check returns ctx.Err() itself, whatever the error of
\* the call was.
C33_HealthCallReturnsContextError ==
  (healthCall.err # Nil /\ healthCall.ctxErr # Nil)
    => healthCall.ret = healthCall.ctxErr

C33_Witness ==
  /\ healthCall.err = DialTimeout
  /\ healthCall.ctxErr = DeadlineExceeded
  /\ healthCall.ret = DeadlineExceeded

\* the field an option sets
Field(o) ==
  CASE o.name \in {"http.WithTimeout", "waiter.WithTimeout"} -> "timeout"
    [] o.name = "http.WithExpectStatusCode" -> "expectStatusCode"
    [] o.name \in {"http.WithRequestHeaders", "http.WithRequestHeader"} ->
         "requestHeaders"
    [] o.name = "waiter.WithInterval" -> "interval"
    [] o.name = "waiter.WithInvertCheck" -> "invertCheck"

\* the constructor has applied every option it was given
Constructed == applied = Len(supplied)

\* the defaults the constructor started from
Defaults ==
  IF "requestHeaders" \in DOMAIN built THEN HTTPDefaults ELSE defaultOptions

Max(S) == CHOOSE i \in S : \A j \in S : j <= i

\* the field f holds what the last option that sets f gives it, and its
\* default when no option sets it
LastWins(f) ==
  LET setters == {i \in 1..Len(supplied) : Field(supplied[i]) = f}
  IN built[f] = IF setters = {} THEN Defaults[f]
                ELSE Apply(supplied[Max(setters)], Defaults)[f]

\* two neighbouring options that set different fields give the same object
\* in either order
NeighboursCommute ==
  \A i \in 1..(Len(supplied) - 1) :
    Field(supplied[i]) # Field(supplied[i + 1]) =>
      ApplyAll([k \in 1..Len(supplied) |->
                  IF k = i THEN supplied[i + 1]
                  ELSE IF k = i + 1 THEN supplied[i]
                  ELSE supplied[k]], Defaults) = built

\* the statement as claimed: of two options that set the same field, the
\* request headers included, the last one alone decides the field
C34_LastOptionAloneDecides ==
  Constructed => (NeighboursCommute /\ \A f \in DOMAIN built : LastWins(f))

\* the headers after the options: the entries of the last WithRequestHeaders
\* and of every WithRequestHeader after it, the last one for each key
CollectedHeaders ==
  LET whole == {i \in 1..Len(supplied) :
                  supplied[i].name = "http.WithRequestHeaders"}
      from == IF whole = {} THEN 0 ELSE Max(whole)
      base == IF whole = {} THEN {} ELSE supplied[from].arg
      single(k) == {i \in (from + 1)..Len(supplied) :
                      /\ supplied[i].name = "http.WithRequestHeader"
                      /\ supplied[i].arg[1] = k}
  IN {p \in base : single(p[1]) = {}}
       \cup {supplied[Max(single(k))].arg : k \in {x \in HeaderKeys : single(x) # {}}}

\* C34: a constructor starts from the defaults and applies its options in
\* order: an option that assigns a field overrides every earlier option on
\* that field and the default, also with a zero value; WithRequestHeader
\* sets one entry of the headers collected so far and keeps the others; two
\* neighbouring options on different fields give the same result in either
\* order.
C34_OptionsApplyInOrder ==
  Constructed =>
    /\ NeighboursCommute
    /\ \A f \in DOMAIN built \ {"requestHeaders"} : LastWins(f)
    /\ "requestHeaders" \in DOMAIN built =>
         built.requestHeaders = CollectedHeaders

C34_Witness ==
  /\ Constructed
  /\ Len(supplied) = 3
  /\ supplied[1].name = "http.WithRequestHeaders"
  /\ supplied[2].name = "http.WithRequestHeader"
  /\ built.requestHeaders = {<<"Authorization", "t1">>, <<"Foo", "t2">>}
  /\ built.timeout = 0

\* the contexts of c that are a With of key
WithsOf(c, key) == {i \in 1..Len(c) : c[i].key = key}

\* every getter returns the value of the innermost With of its key, and the
\* zero value of the key's type when there is none
GetReadsInnermostWith ==
  \A key \in ConfigKeys :
    Get(config, key) = IF WithsOf(config, key) = {} THEN ZeroValue[key]
                       ELSE config[Max(WithsOf(config, key))].value

\* deriving a context keeps the context it is derived from, changes the
\* value of no key but the one of a With, and sets that one
DerivationFrame ==
  /\ SubSeq(config', 1, Len(config)) = config
  /\ \A key \in ConfigKeys :
       IF config'[Len(config')].key = key
         THEN Get(config', key) = config'[Len(config')].value
         ELSE Get(config', key) = Get(config, key)

\* C35: for each of the six keys Get returns the value of the innermost
\* With of the key; a With on one key changes neither the other keys nor the
\* context it was applied to; a key never set reads as the zero value of
\* its type, also through derived cancel and deadline contexts.
C35_ConfigGetWithFrame ==
  []GetReadsInnermostWith /\ [][DerivationFrame]_vars

C35_Witness ==
  /\ Len(config) = 3
  /\ config[1].key = "timeout" /\ config[1].value = 5
  /\ config[2].key = "timeout" /\ config[2].value = 0
  /\ config[3].key = "cancelCtx"
  /\ Get(config, "timeout") = 0
  /\ Get(config, "invertCheck") = FALSE

\* the number of Check calls task i has started
ChecksStarted(i) ==
  Cardinality({k \in 1..Len(logs[i]) : logs[i][k] = LogChecking})

\* a Check of task i is in flight exactly when one more was started than
\* have returned: never two at a time
OneCheckInFlight ==
  \A i \in Tasks :
    ChecksStarted(i) - Len(results[i]) = IF pc[i] = "inflight" THEN 1 ELSE 0

\* a Check is started only when no other is in flight and, after an earlier
\* attempt, only when a backoff timer was started for every earlier attempt
\* and the last one has expired
CheckStartsAfterWait ==
  \A i \in Tasks :
    ChecksStarted(i)' = ChecksStarted(i) + 1 =>
      /\ pc[i] # "inflight"
      /\ Len(waits[i]) = Len(results[i])
      /\ results[i] # <<>> => timer[i]

\* C36: within one WaitContext at most one Check is in flight at any time,
\* and between two consecutive Checks one whole backoff wait takes place: an
\* attempt that did not stop the loop is never followed directly by another.
C36_AttemptsAlternateWithWaits ==
  []OneCheckInFlight /\ [][CheckStartsAfterWait]_vars

C36_Witness ==
  /\ pc[1] = "inflight"
  /\ Len(results[1]) = 2
  /\ Len(waits[1]) = 2
  /\ timer[1]

\* every WaitContext call has returned and, under WaitParallelContext, every
\* probe goroutine has ended and the caller has its result
AllReturned ==
  /\ callerPc # "select"
  /\ \A i \in Tasks :
       pc[i] = IF callerPc = "none" THEN "returned" ELSE "exited"

\* C37: with a timeout above zero and a probe whose Check calls return,
\* WaitContext eventually returns whatever the Check results are, inverted
\* or not; WaitParallelContext eventually returns and every one of its
\* probe tasks eventually ends.
C37_TimedWaitsTerminate == (opts.timeout > 0) => <>[]AllReturned

C37_Witness ==
  /\ AllReturned
  /\ callerPc = "returned"
  /\ callerRet = DeadlineExceeded
  /\ \E i \in Tasks : Len(results[i]) = MaxChecks

\* C38: WaitContext derives a timeout context exactly when timeout > 0; for
\* a timeout of zero or below it uses the parent context as it is.
C38_DerivesOnlyForPositiveTimeout ==
  \A i \in Tasks :
    (pc[i] # "start" /\ Validate(opts) = Nil)
      => (ctx[i].derived <=> opts.timeout > 0)

\* the validation errors in the order in which the rules are listed
RuleOrder == <<ErrPolicy, ErrCoefficient, ErrMaxInterval, ErrInterval>>

\* the error of the first rule in RuleOrder that a configuration violates
FirstViolated(o) ==
  LET violated == {k \in 1..Len(RuleOrder) : RuleOrder[k] \in ViolatedRules(o)}
  IN RuleOrder[CHOOSE k \in violated : \A l \in violated : k <= l]

\* C39: when a configuration violates one or more validation rules,
\* WaitContext returns the error of the first violated rule in the order
\* policy, coefficient, max interval against interval, interval; under the
\* linear policy it never returns the coefficient or the max interval error.
C39_FirstViolatedRuleDecides ==
  \A i \in Tasks :
    Finished(i) =>
      /\ ViolatedRules(opts) # {} => ret[i] = FirstViolated(opts)
      /\ opts.backoffPolicy = "linear"
           => ret[i] \notin {ErrCoefficient, ErrMaxInterval}

\* C39 witness: WaitContext has returned on a configuration that violates
\* more than one rule
C39_Witness ==
  \E i \in Tasks :
    /\ Finished(i)
    /\ Cardinality(ViolatedRules(opts)) >= 2

\* the probe tasks that have passed their send with a non-nil error
FailedSenders == {i \in Tasks : pc[i] \in {"sent", "exited"} /\ ret[i] # Nil}

\* the number of errors the caller has received from wgErrors
ErrorsReceived == IF callerPc = "returned" /\ callerRet # Nil THEN 1 ELSE 0

\* C40: wgErrors never holds more errors than there are probes; a task that
\* is about to send a non-nil error finds room in the channel, so the
\* default branch of its select is not taken; every error sent is either
\* still buffered or the one the caller received.
C40_ErrorSendNeverDiscards ==
  /\ Len(wgErrors) <= Len(checkers)
  /\ \A i \in Tasks :
       (pc[i] = "returned" /\ ret[i] # Nil) => Len(wgErrors) < Len(checkers)
  /\ Len(wgErrors) + ErrorsReceived = Cardinality(FailedSenders)

\* C40 witness: the caller has returned the first error and the error of a
\* task that failed later lies unread in wgErrors
C40_Witness ==
  /\ callerPc = "returned"
  /\ callerRet # Nil
  /\ Cardinality(FailedSenders) >= 2
  /\ Len(wgErrors) >= 1

====
